---------------------------- MODULE Spec2Model ----------------------------
(***************************************************************************)
(* A model of the configuration-driven risk scoring engine:                *)
(*   - FlexibleAIRiskAssessor (flexible_risk_assessor.py): per-question    *)
(*     scoring, per-dimension aggregation, classification, and the         *)
(*     field-by-field reload_configs;                                      *)
(*   - ConfigService (config_service.py): the mtime-based cache;           *)
(*   - direct calls of the aggregator, the classifier and the conditional  *)
(*     resolver on drawn inputs, and the construction of both objects on   *)
(*     files in any state.                                                 *)
(*                                                                         *)
(* Numbers.  Python floats are modelled as exact rationals <<n, d>> in     *)
(* lowest terms with d > 0.  This is exact for the inputs the model draws  *)
(* (integer scores, weights that are multiples of 1/2): every product, sum *)
(* and quotient the code forms on them is either exactly representable or  *)
(* the correctly rounded value of the same exact rational.                 *)
(*                                                                         *)
(* Strings.  A question id is a sequence of tokens, e.g. 'autonomy_scope'  *)
(* is <<"autonomy", "_scope">>, so that str.startswith(dimension) and      *)
(* str.endswith('_reasoning') are computed on the id and not looked up.    *)
(* A YAML mapping is a function; a key is present iff it is in its DOMAIN. *)
(***************************************************************************)
EXTENDS Integers, Sequences, FiniteSets, TLC

VARIABLES
    \* --- a direct call of aggregate_dimension_scores
    aggConfig,      \* self.dimension_config of the call
    aggScores,      \* the question_scores argument
    aggResult,      \* the value returned
    aggPc,          \* "ready" before the call, "done" after it
    \* --- the files FlexibleAIRiskAssessor reads (the name of their content)
    scoringFile,    \* scoring_flexible.yaml
    recsFile,       \* recommendations.yaml
    questionsDir,   \* the questions directory
    edits,          \* number of admin edits so far
    \* --- the fields of the FlexibleAIRiskAssessor object
    scoring_config,
    recommendations_config,
    questions_config,
    dimension_config,
    risk_thresholds,
    risk_styling,
    default_scoring,
    \* --- the thread running reload_configs
    rpc,            \* the statement it is at ("idle" between calls)
    preReload,      \* history: ActiveConfig when the current/last call began
    \* --- the thread running assess_risk
    ev,             \* its position and locals
    evStart,        \* history: ActiveConfig and file state when the call began
    \* --- the sources ConfigService reads
    csFile,         \* per source: the name of its content and its mtime
    csClock,        \* the latest mtime given to a source
    csEdits,        \* number of admin edits so far
    \* --- the fields of the ConfigService object
    cache,          \* per source: _questions_config, _flexible_scoring,
                    \* _recommendations, _legacy_scoring
    mtimes,         \* self._mtimes
    lock,           \* self._lock: "free" or the thread holding it
    \* --- the threads calling reload_if_changed
    loader,         \* per thread: the statement of _load_all it is at
    dirty,          \* history, per thread: a source was edited since its call began
    committed,      \* history: the configurations cached when no load was running
    \* --- a thread reading the configuration through the getters
    rd,             \* its position and what it has obtained
    \* --- a direct call of determine_risk_level
    clsThresholds,  \* self.risk_thresholds of the call
    clsScore,       \* the score argument
    clsLevel,       \* the value returned
    clsPc,          \* "ready" before the call, "done" after it
    \* --- a direct call of get_conditional_recommendations
    recConfig,      \* self.recommendations_config of the call
    recAnswers,     \* the assessment_data argument
    recResult,      \* the list returned
    recPc,          \* "ready" before the call, "done" after it
    \* --- the construction of the ConfigService object
    csBoot,         \* "unbuilt" before ConfigService(), "serving" after it
    \* --- a run of validate_questions
    valQuestions,   \* the questions directory (the name of its content)
    valScoring,     \* yaml.safe_load of scoring_flexible.yaml
    valIssues,      \* the errors and warnings reported
    valPc,          \* "ready" before the run, "done" after it
    \* --- a direct call of calculate_question_score
    qsConfig,       \* self.dimension_config of the call
    qsDefaults,     \* self.default_scoring of the call
    qsAnswer,       \* the answer argument
    qsResult,       \* the value returned
    qsPc,           \* "ready" before the call, "done" after it
    \* --- the admin interface: one dimension's question file, the scoring file
    admQuestions,   \* <dimension>_questions of questions/<dimension>.yaml
    admScoring,     \* dimensions.<dimension>.questions of scoring_flexible.yaml
    admReq,         \* per request thread: its request, position and loaded data
    admLog,         \* history: the requests that reported success
    admCount        \* number of requests made so far

aggVars == <<aggConfig, aggScores, aggResult, aggPc>>

fileVars == <<scoringFile, recsFile, questionsDir, edits>>

fieldVars == <<scoring_config, recommendations_config, questions_config,
               dimension_config, risk_thresholds, risk_styling, default_scoring>>

reloadVars == <<rpc, preReload>>

evalVars == <<ev, evStart>>

faVars == <<fileVars, fieldVars, reloadVars, evalVars>>

csVars == <<csFile, csClock, csEdits, cache, mtimes, lock, loader, dirty,
            committed, rd>>

clsVars == <<clsThresholds, clsScore, clsLevel, clsPc>>

recVars == <<recConfig, recAnswers, recResult, recPc>>

valVars == <<valQuestions, valScoring, valIssues, valPc>>

qsVars == <<qsConfig, qsDefaults, qsAnswer, qsResult, qsPc>>

admVars == <<admQuestions, admScoring, admReq, admLog, admCount>>

\* The tools beside the two services: the validator, a direct call of the
\* question scorer, the admin interface.
toolVars == <<valVars, qsVars, admVars>>

\* What the actions of each part leave alone.
nonFaVars == <<aggVars, csVars, clsVars, recVars, csBoot, toolVars>>

nonAggVars == <<faVars, csVars, clsVars, recVars, csBoot, toolVars>>

nonCsVars == <<aggVars, faVars, clsVars, recVars, csBoot, toolVars>>

nonClsVars == <<aggVars, faVars, csVars, recVars, csBoot, toolVars>>

nonRecVars == <<aggVars, faVars, csVars, clsVars, csBoot, toolVars>>

\* The state of the services and of the direct calls of their methods.
serviceVars == <<aggVars, faVars, csVars, clsVars, recVars, csBoot>>

vars == <<serviceVars, toolVars>>

\* ------------------------------------------------------------------ bounds
\* Largest score an answer can be given in the drawn configurations.
MaxScore == 4
\* Largest weight drawn, in halves (2 is weight 1.0).
MaxWeightHalves == 2
\* Admin edits of the configuration files in one behaviour.
MaxEdits == 2
\* Largest score handed to a direct call of determine_risk_level.
MaxTotal == 18
\* Conditional rules in the recommendations handed to a direct call of the
\* conditional resolver.
MaxRules == 2

\* default scales a scoring file declares in the direct calls of the scorer
MaxScales == 2

\* admin requests taken in one behaviour
MaxAdminRequests == 3

\* ------------------------------------------------------- exact arithmetic
Abs(x) == IF x < 0 THEN -x ELSE x

RECURSIVE GCD(_, _)
GCD(a, b) == IF b = 0 THEN a ELSE GCD(b, a % b)

\* The rational n/d in lowest terms with a positive denominator.
Rat(n, d) ==
    LET g == GCD(Abs(n), Abs(d))
        s == IF d < 0 THEN -1 ELSE 1
    IN  <<(s * n) \div g, (s * d) \div g>>

Zero == <<0, 1>>
One == <<1, 1>>
ToRat(i) == <<i, 1>>
RatAdd(a, b) == Rat(a[1] * b[2] + b[1] * a[2], a[2] * b[2])
RatMul(a, b) == Rat(a[1] * b[1], a[2] * b[2])
RatDiv(a, b) == Rat(a[1] * b[2], a[2] * b[1])
RatLt(a, b) == a[1] * b[2] < b[1] * a[2]
RatLe(a, b) == a[1] * b[2] <= b[1] * a[2]

\* ------------------------------------------------------------ dict, str
\* dict.get(key, default)
Get(d, key, default) == IF key \in DOMAIN d THEN d[key] ELSE default

\* The empty dict {}.
EmptyDict == [k \in {} |-> k]

\* question_id.endswith('_reasoning')
EndsWithReasoning(question_id) ==
    Len(question_id) >= 1 /\ question_id[Len(question_id)] = "_reasoning"

\* question_id.startswith(dimension)
StartsWith(question_id, dimension) ==
    Len(question_id) >= 1 /\ question_id[1] = dimension

\* ------------------------------------------------------------ aggregation
\* sum(scores[q] for q in ids)
RECURSIVE SumScores(_, _)
SumScores(scores, ids) ==
    IF ids = {} THEN Zero
    ELSE LET q == CHOOSE x \in ids : TRUE
         IN  RatAdd(scores[q], SumScores(scores, ids \ {q}))

\* statistics.mean over the entries ids (non-empty)
Mean(scores, ids) == RatDiv(SumScores(scores, ids), ToRat(Cardinality(ids)))

\* max(...) over the entries ids (non-empty)
MaxOf(scores, ids) ==
    scores[CHOOSE q \in ids : \A r \in ids : RatLe(scores[r], scores[q])]

MinOf_Largest(scores, ids) ==
    scores[CHOOSE q \in ids : \A r \in ids : RatLe(scores[r], scores[q])]

\* min(...) over the entries ids (non-empty)
MinOf(scores, ids) ==
    scores[CHOOSE q \in ids : \A r \in ids : RatLe(scores[q], scores[r])]

\* The entries a comprehension "if not q_id.endswith('_reasoning')" keeps.
ActualIds(question_scores) ==
    {q \in DOMAIN question_scores : ~EndsWithReasoning(q)}

WeightOf_DefaultZero(questions_cfg, question_id) ==
    Get(Get(questions_cfg, question_id, EmptyDict), "weight", Zero)

\* questions_config.get(question_id, {}).get('weight', 1.0)
WeightOf(questions_cfg, question_id) ==
    Get(Get(questions_cfg, question_id, EmptyDict), "weight", One)

\* total_weighted_score after the loop over ids
RECURSIVE TotalWeightedScore(_, _, _)
TotalWeightedScore(questions_cfg, scores, ids) ==
    IF ids = {} THEN Zero
    ELSE LET q == CHOOSE x \in ids : TRUE
         IN  RatAdd(RatMul(scores[q], WeightOf(questions_cfg, q)),
                    TotalWeightedScore(questions_cfg, scores, ids \ {q}))

\* total_weight after the loop over ids
RECURSIVE TotalWeight(_, _)
TotalWeight(questions_cfg, ids) ==
    IF ids = {} THEN Zero
    ELSE LET q == CHOOSE x \in ids : TRUE
         IN  RatAdd(WeightOf(questions_cfg, q),
                    TotalWeight(questions_cfg, ids \ {q}))

WeightedAverage_DivByCount(questions_cfg, question_scores) ==
    LET ids == ActualIds(question_scores)
    IN  IF ids # {}
        THEN RatDiv(TotalWeightedScore(questions_cfg, question_scores, ids),
                    ToRat(Cardinality(ids)))
        ELSE Zero

\* The weighted_average branch: reasoning fields skipped, then
\* total_weighted_score / total_weight if total_weight > 0 else 0.0
WeightedAverage(questions_cfg, question_scores) ==
    LET ids == ActualIds(question_scores)
        total_weighted_score ==
            TotalWeightedScore(questions_cfg, question_scores, ids)
        total_weight == TotalWeight(questions_cfg, ids)
    IN  IF RatLt(Zero, total_weight)
        THEN RatDiv(total_weighted_score, total_weight)
        ELSE Zero

\* aggregate_dimension_scores(dimension, question_scores), reading the
\* dimension's entry of the given dimension_config
aggregate_dimension_scores(dim_cfg, dimension, question_scores) ==
    LET dim_config == Get(dim_cfg, dimension, EmptyDict)
        aggregation == Get(dim_config, "aggregation", "max")
        questions_cfg == Get(dim_config, "questions", EmptyDict)
        all == DOMAIN question_scores
        actual == ActualIds(question_scores)
    IN  IF all = {} THEN Zero
        ELSE CASE aggregation = "sum" -> SumScores(question_scores, all)
               [] aggregation = "average" ->
                    IF actual # {} THEN Mean(question_scores, actual) ELSE Zero
               [] aggregation = "weighted_average" ->
                    WeightedAverage(questions_cfg, question_scores)
               [] aggregation = "max" ->
                    IF actual # {} THEN MaxOf(question_scores, actual) ELSE Zero
               [] aggregation = "min" -> MinOf(question_scores, all)
               [] OTHER -> Mean(question_scores, all)

\* ------------------------------------------------------ question scoring
\* The first default scale, in declared order, that holds the answer
\* (0 when none does): the loop over self.default_scoring.items().
RECURSIVE DefaultScaleScore(_, _, _)
DefaultScaleScore(default_scales, answer, i) ==
    IF i > Len(default_scales) THEN Zero
    ELSE IF answer \in DOMAIN default_scales[i].scale
         THEN ToRat(default_scales[i].scale[answer])
         ELSE DefaultScaleScore(default_scales, answer, i + 1)

calculate_question_score_DefaultsFirst(dim_cfg, default_scales, dimension, question_id, answer) ==
    LET d_config == Get(dim_cfg, dimension, EmptyDict)
        questions_cfg == Get(d_config, "questions", EmptyDict)
        question_config == Get(questions_cfg, question_id, EmptyDict)
        scoring == Get(question_config, "scoring", EmptyDict)
    IN  IF \E i \in 1..Len(default_scales) : answer \in DOMAIN default_scales[i].scale
        THEN DefaultScaleScore(default_scales, answer, 1)
        ELSE IF answer \in DOMAIN scoring THEN ToRat(scoring[answer]) ELSE Zero

\* calculate_question_score(dimension, question_id, answer), reading the given
\* dimension_config and default_scoring
calculate_question_score(dim_cfg, default_scales, dimension, question_id, answer) ==
    LET d_config == Get(dim_cfg, dimension, EmptyDict)
        questions_cfg == Get(d_config, "questions", EmptyDict)
        question_config == Get(questions_cfg, question_id, EmptyDict)
        scoring == Get(question_config, "scoring", EmptyDict)
    IN  IF answer \in DOMAIN scoring
        THEN ToRat(scoring[answer])
        ELSE DefaultScaleScore(default_scales, answer, 1)

is_question_in_dimension_Any(dim_cfg, question_id, dimension) ==
    ~EndsWithReasoning(question_id)

\* is_question_in_dimension(question_id, dimension)
is_question_in_dimension(dim_cfg, question_id, dimension) ==
    LET d_config == Get(dim_cfg, dimension, EmptyDict)
        questions_cfg == Get(d_config, "questions", EmptyDict)
    IN  IF EndsWithReasoning(question_id) THEN FALSE
        ELSE IF question_id \in DOMAIN questions_cfg THEN TRUE
        ELSE StartsWith(question_id, dimension)

\* The dimensions calculate_flexible_risk_score loops over, in its order.
Dimensions == <<"autonomy", "oversight", "impact", "orchestration", "data_sensitivity">>

\* dimension_question_scores after the loop over assessment_data.items()
DimensionQuestionScores(dim_cfg, default_scales, dimension, assessment_data) ==
    LET keys == {k \in DOMAIN assessment_data :
                    is_question_in_dimension(dim_cfg, k, dimension)}
    IN  [k \in keys |->
            calculate_question_score(dim_cfg, default_scales, dimension, k,
                                     assessment_data[k])]

\* What the second half of a loop iteration stores in dimension_scores.
DimensionScore(dim_cfg, dimension, dimension_question_scores) ==
    IF DOMAIN dimension_question_scores # {}
    THEN aggregate_dimension_scores(dim_cfg, dimension, dimension_question_scores)
    ELSE Zero

TotalScore_FirstOnly(dimension_scores) ==
    IF DOMAIN dimension_scores = {} THEN Zero
    ELSE dimension_scores[CHOOSE d \in DOMAIN dimension_scores :
                            \A e \in DOMAIN dimension_scores :
                                \E i, j \in 1..Len(Dimensions) :
                                    Dimensions[i] = d /\ Dimensions[j] = e /\ i <= j]

\* total_score = sum(dimension_scores.values())
TotalScore(dimension_scores) == SumScores(dimension_scores, DOMAIN dimension_scores)

\* ---------------------------------------------------------- classification
RoundHalfEven_HalfUp(r) ==
    LET fl == r[1] \div r[2]
        twice == 2 * (r[1] % r[2])
    IN  IF twice < r[2] THEN fl ELSE fl + 1

\* round(score): to the nearest integer, ties to the even one
RoundHalfEven(r) ==
    LET fl == r[1] \div r[2]
        twice == 2 * (r[1] % r[2])
    IN  IF twice < r[2] THEN fl
        ELSE IF twice > r[2] THEN fl + 1
        ELSE IF fl % 2 = 0 THEN fl ELSE fl + 1

RECURSIVE FirstMatch_ExclusiveMax(_, _, _)
FirstMatch_ExclusiveMax(thresholds, rounded_score, i) ==
    IF i > Len(thresholds) THEN "no match"
    ELSE IF thresholds[i].min <= rounded_score /\ rounded_score < thresholds[i].max
         THEN thresholds[i].level
         ELSE FirstMatch_ExclusiveMax(thresholds, rounded_score, i + 1)

\* The level of the first range, in configured order, holding the score.
RECURSIVE FirstMatch(_, _, _)
FirstMatch(thresholds, rounded_score, i) ==
    IF i > Len(thresholds) THEN "no match"
    ELSE IF thresholds[i].min <= rounded_score /\ rounded_score <= thresholds[i].max
         THEN thresholds[i].level
         ELSE FirstMatch(thresholds, rounded_score, i + 1)

\* min(config['min'] for config in self.risk_thresholds.values())
MinThreshold(thresholds) ==
    LET mins == {thresholds[i].min : i \in 1..Len(thresholds)}
    IN  CHOOSE m \in mins : \A n \in mins : m <= n

determine_risk_level_Truncating(thresholds, score) ==
    LET rounded_score == score[1] \div score[2]
        matched == FirstMatch(thresholds, rounded_score, 1)
    IN  IF matched # "no match" THEN matched
        ELSE IF rounded_score < MinThreshold(thresholds) THEN "low"
        ELSE "unknown"

\* determine_risk_level(score), reading the given risk_thresholds
determine_risk_level(thresholds, score) ==
    LET rounded_score == RoundHalfEven(score)
        matched == FirstMatch(thresholds, rounded_score, 1)
    IN  IF matched # "no match" THEN matched
        ELSE IF rounded_score < MinThreshold(thresholds) THEN "low"
        ELSE "unknown"

\* --------------------------------------------------------- recommendations
\* get_recommendations(risk_level), reading the given recommendations_config
get_recommendations(recs_config, risk_level) ==
    Get(Get(recs_config, "by_risk_level", EmptyDict), risk_level, <<>>)

\* What dict.get(key) returns for an absent key.
NoneValue == "<None>"

ConditionMet_AnyField(condition, assessment_data) ==
    \E field \in DOMAIN condition :
        Get(assessment_data, field, NoneValue) \in condition[field]

\* condition_met after the loop over condition.items(): no field has
\* assessment_data.get(field) outside its required_values.
ConditionMet(condition, assessment_data) ==
    \A field \in DOMAIN condition :
        Get(assessment_data, field, NoneValue) \in condition[field]

\* The distinct entries of a list, each at its first position.
RECURSIVE Dedup(_)
Dedup(s) ==
    IF s = <<>> THEN <<>>
    ELSE LET rest == Dedup(SubSeq(s, 1, Len(s) - 1))
             last == s[Len(s)]
         IN  IF \E i \in 1..Len(rest) : rest[i] = last THEN rest
             ELSE Append(rest, last)

get_conditional_recommendations_Dedup(recs_config, assessment_data) ==
    LET rules == Get(recs_config, "conditional", <<>>)
        Fires(rule) ==
            /\ ConditionMet(Get(rule, "condition", EmptyDict), assessment_data)
            /\ Get(rule, "recommendation", "") # ""
        fired == SelectSeq(rules, Fires)
    IN  Dedup([i \in 1..Len(fired) |-> fired[i].recommendation])

\* get_conditional_recommendations(assessment_data), reading the given
\* recommendations_config
get_conditional_recommendations(recs_config, assessment_data) ==
    LET rules == Get(recs_config, "conditional", <<>>)
        Fires(rule) ==
            /\ ConditionMet(Get(rule, "condition", EmptyDict), assessment_data)
            /\ Get(rule, "recommendation", "") # ""
        fired == SelectSeq(rules, Fires)
    IN  [i \in 1..Len(fired) |-> fired[i].recommendation]

\* ------------------------------------------------- configuration contents
\* The contents the configuration files take in the model.  A file variable
\* holds the name of its content; yaml.safe_load of it is given below.
AutonomyScoring == [tool |-> 1, assistant |-> 2, agent |-> 3, autonomous |-> 4]
ScopeScoring == [narrow |-> 1, broad |-> 4]
OversightScoring == [continuous |-> 1, checkpoint |-> 2, exception |-> 3, minimal |-> 4]
ImpactScoring == [internal |-> 1, team |-> 2, company |-> 3, external |-> 4]

\* 'dimensions' with the given weight for the question autonomy_scope.
DimensionsWith(scope_weight) ==
    [autonomy |->
        [aggregation |-> "weighted_average",
         questions |->
            (<<"autonomy">> :> [weight |-> One, scoring |-> AutonomyScoring]) @@
            (<<"autonomy", "_scope">> :>
                [weight |-> scope_weight, scoring |-> ScopeScoring])],
     oversight |->
        [aggregation |-> "max",
         questions |-> (<<"oversight">> :> [weight |-> One, scoring |-> OversightScoring])],
     impact |->
        [aggregation |-> "sum",
         questions |-> (<<"impact">> :> [weight |-> One, scoring |-> ImpactScoring])]]

ComplianceScoring == [audited |-> 2, unaudited |-> 4]

ReviewScoring == [peer |-> 1, none |-> 3]

\* 'dimensions' with a sixth category, compliance, and with the question
\* autonomy_review configured under oversight.
DimensionsExtended ==
    [d \in DOMAIN DimensionsWith(One) \cup {"compliance"} |->
        CASE d = "compliance" ->
                [aggregation |-> "sum",
                 questions |->
                    (<<"compliance">> :> [weight |-> One, scoring |-> ComplianceScoring])]
          [] d = "oversight" ->
                [aggregation |-> "max",
                 questions |->
                    (<<"oversight">> :> [weight |-> One, scoring |-> OversightScoring]) @@
                    (<<"autonomy", "_review">> :>
                        [weight |-> One, scoring |-> ReviewScoring])]
          [] OTHER -> DimensionsWith(One)[d]]

ThresholdsA ==
    << [name |-> "low", min |-> 4, max |-> 7, level |-> "low"],
       [name |-> "medium", min |-> 8, max |-> 11, level |-> "medium"],
       [name |-> "high", min |-> 12, max |-> 14, level |-> "high"],
       [name |-> "critical", min |-> 15, max |-> 16, level |-> "critical"] >>

ThresholdsB ==
    << [name |-> "low", min |-> 3, max |-> 9, level |-> "low"],
       [name |-> "medium", min |-> 10, max |-> 12, level |-> "medium"],
       [name |-> "high", min |-> 13, max |-> 16, level |-> "high"] >>

DefaultScalesA == << [name |-> "standard", scale |-> [low |-> 1, high |-> 4]] >>

ScoringNames == {"A", "B", "C", "missing"}

\* yaml.safe_load of scoring_flexible.yaml: A and B are complete, B changes the
\* weight of autonomy_scope and the thresholds, adds the category compliance
\* and the oversight question autonomy_review and has no default_scoring, C
\* lacks the required key risk_thresholds.  "missing" cannot be opened.
ScoringYaml(name) ==
    CASE name = "A" ->
            [dimensions |-> DimensionsWith(Rat(1, 2)), risk_thresholds |-> ThresholdsA,
             risk_styling |-> "styling A", default_scoring |-> DefaultScalesA]
      [] name = "B" ->
            [dimensions |-> DimensionsExtended, risk_thresholds |-> ThresholdsB,
             risk_styling |-> "styling B"]
      [] name = "C" ->
            [dimensions |-> DimensionsWith(One), risk_styling |-> "styling B"]

RecsNames == {"A", "B", "missing"}

\* yaml.safe_load of recommendations.yaml.
RecsYaml(name) ==
    CASE name = "A" ->
            [by_risk_level |->
                [low |-> <<"monitor">>, medium |-> <<"review">>,
                 high |-> <<"approve">>, critical |-> <<"halt">>],
             conditional |->
                << [condition |-> (<<"impact">> :> {"external"}) @@
                                  (<<"oversight">> :> {"minimal"}),
                    recommendation |-> "external with minimal oversight"] >>]
      [] name = "B" ->
            [by_risk_level |->
                [low |-> <<"monitor quarterly">>, medium |-> <<"review monthly">>,
                 high |-> <<"approve each release">>],
             conditional |->
                << [condition |-> (<<"impact">> :> {"external"}),
                    recommendation |-> "external impact"] >>]

QuestionsNames == {"A", "B"}

\* The questions directory: per question file present, its top-level key and
\* the questions under it (display metadata reduced to a title, 'options' to
\* the answer keys offered).  In B the autonomy question offers the further
\* answer supervised and oversight.yaml lacks the expected top-level key.
\* D, which only the validator is run on, has a question offering an answer
\* without score, a question without scoring entry, one without options and
\* one without title, and no oversight.yaml.
QuestionsDirContent(name) ==
    CASE name = "A" ->
            [autonomy |->
                [top |-> <<"autonomy", "_questions">>,
                 questions |->
                    (<<"autonomy">> :>
                        [title |-> "Autonomy", options |-> DOMAIN AutonomyScoring]) @@
                    (<<"autonomy", "_scope">> :>
                        [title |-> "Scope", options |-> DOMAIN ScopeScoring])],
             oversight |->
                [top |-> <<"oversight", "_questions">>,
                 questions |->
                    (<<"oversight">> :>
                        [title |-> "Oversight", options |-> DOMAIN OversightScoring])],
             impact |->
                [top |-> <<"impact", "_questions">>,
                 questions |->
                    (<<"impact">> :>
                        [title |-> "Impact", options |-> DOMAIN ImpactScoring])]]
      [] name = "B" ->
            [autonomy |->
                [top |-> <<"autonomy", "_questions">>,
                 questions |->
                    (<<"autonomy">> :>
                        [title |-> "Autonomy level",
                         options |-> DOMAIN AutonomyScoring \cup {"supervised"}])],
             oversight |->
                [top |-> <<"oversight">>,
                 questions |->
                    (<<"oversight">> :>
                        [title |-> "Oversight", options |-> DOMAIN OversightScoring])]]
      [] name = "D" ->
            [autonomy |->
                [top |-> <<"autonomy", "_questions">>,
                 questions |->
                    (<<"autonomy">> :>
                        [title |-> "Autonomy", options |-> DOMAIN AutonomyScoring]) @@
                    (<<"autonomy", "_scope">> :>
                        [title |-> "Scope",
                         options |-> DOMAIN ScopeScoring \cup {"global"}]) @@
                    (<<"autonomy", "_frequency">> :>
                        [title |-> "Frequency", options |-> {"rarely", "continuously"}]) @@
                    (<<"autonomy", "_notes">> :> [title |-> "Notes", options |-> {}]) @@
                    (<<"autonomy", "_untitled">> :> [options |-> DOMAIN AutonomyScoring])],
             impact |->
                [top |-> <<"impact", "_questions">>,
                 questions |->
                    (<<"impact">> :>
                        [title |-> "Impact", options |-> DOMAIN ImpactScoring])]]

\* question_files, in its order.
QuestionFiles == Dimensions

BasicFields == [workflow_name |-> "Workflow/System Name", assessor |-> "Assessor Name"]

\* QuestionsLoader.load_all_questions on a directory: the questions of every
\* present file whose top-level key is <key>_questions, each tagged with its
\* dimension; a question id in several files keeps the last file's entry.
load_all_questions(dir) ==
    LET loaded == {i \in 1..Len(QuestionFiles) :
                      /\ QuestionFiles[i] \in DOMAIN dir
                      /\ dir[QuestionFiles[i]].top = <<QuestionFiles[i], "_questions">>}
        ids == UNION {DOMAIN dir[QuestionFiles[i]].questions : i \in loaded}
        owner(q) ==
            QuestionFiles[CHOOSE i \in loaded :
                /\ q \in DOMAIN dir[QuestionFiles[i]].questions
                /\ \A j \in loaded :
                      q \in DOMAIN dir[QuestionFiles[j]].questions => j <= i]
    IN  [questions |->
            [q \in ids |-> [dimension |-> owner(q),
                            title |-> dir[owner(q)].questions[q].title,
                            options |-> dir[owner(q)].questions[q].options]],
         basic_fields |-> BasicFields]

\* The answer sets submitted to assess_risk.
AnswerSets ==
    { (<<"autonomy">> :> "agent") @@ (<<"autonomy", "_scope">> :> "broad") @@
      (<<"oversight">> :> "minimal") @@ (<<"impact">> :> "external") @@
      (<<"autonomy", "_reasoning">> :> "free text"),
      (<<"autonomy">> :> "autonomous") @@ (<<"autonomy", "_scope">> :> "narrow") @@
      (<<"oversight">> :> "checkpoint") @@ (<<"impact">> :> "external"),
      \* with two ids no category configures, autonomy_frequency and
      \* deployment, and answers to compliance and autonomy_review
      (<<"autonomy">> :> "agent") @@ (<<"autonomy", "_frequency">> :> "continuously") @@
      (<<"oversight">> :> "minimal") @@ (<<"impact">> :> "external") @@
      (<<"deployment">> :> "cloud") @@ (<<"compliance">> :> "unaudited") @@
      (<<"autonomy", "_review">> :> "none") }

\* ------------------------------------------------ FlexibleAIRiskAssessor
\* The configuration evaluations and readers use.
ActiveConfig ==
    [dimension_config |-> dimension_config,
     default_scoring |-> default_scoring,
     risk_thresholds |-> risk_thresholds,
     recommendations_config |-> recommendations_config,
     questions_config |-> questions_config]

\* The locals of an assess_risk call before its first statement.
EvIdle ==
    [pc |-> "idle", answers |-> EmptyDict, i |-> 1,
     dimension_question_scores |-> EmptyDict,
     dimension_scores |-> EmptyDict, question_scores |-> EmptyDict,
     total_score |-> Zero, risk_level |-> "",
     recommendations |-> <<>>, conditional_recommendations |-> <<>>]

\* The object after __init__, whose reload_configs read the contents A.
FAInit ==
    /\ scoringFile = "A"
    /\ recsFile = "A"
    /\ questionsDir = "A"
    /\ edits = 0
    /\ scoring_config = ScoringYaml("A")
    /\ recommendations_config = RecsYaml("A")
    /\ questions_config = load_all_questions(QuestionsDirContent("A"))
    /\ dimension_config = ScoringYaml("A").dimensions
    /\ risk_thresholds = ScoringYaml("A").risk_thresholds
    /\ risk_styling = ScoringYaml("A").risk_styling
    /\ default_scoring = ScoringYaml("A").default_scoring
    /\ rpc = "done"
    /\ preReload = [dimension_config |-> ScoringYaml("A").dimensions,
                    default_scoring |-> ScoringYaml("A").default_scoring,
                    risk_thresholds |-> ScoringYaml("A").risk_thresholds,
                    recommendations_config |-> RecsYaml("A"),
                    questions_config |-> load_all_questions(QuestionsDirContent("A"))]
    /\ ev = EvIdle
    /\ evStart = [config |-> preReload, clean |-> FALSE, edited |-> FALSE]

\* --- admin edits of the files
EditScoring ==
    /\ edits < MaxEdits
    /\ \E c \in ScoringNames \ {scoringFile} : scoringFile' = c
    /\ edits' = edits + 1
    /\ evStart' = [evStart EXCEPT !.edited = TRUE]
    /\ UNCHANGED <<nonFaVars, recsFile, questionsDir, fieldVars, reloadVars, ev>>

EditRecs ==
    /\ edits < MaxEdits
    /\ \E c \in RecsNames \ {recsFile} : recsFile' = c
    /\ edits' = edits + 1
    /\ UNCHANGED <<nonFaVars, scoringFile, questionsDir, fieldVars, reloadVars, evalVars>>

EditQuestions ==
    /\ edits < MaxEdits
    /\ \E c \in QuestionsNames \ {questionsDir} : questionsDir' = c
    /\ edits' = edits + 1
    /\ UNCHANGED <<nonFaVars, scoringFile, recsFile, fieldVars, reloadVars, evalVars>>

\* --- reload_configs, one statement at a time
ReloadStart ==
    /\ rpc \in {"done", "failed"}
    /\ rpc' = "load_scoring"
    /\ preReload' = ActiveConfig
    /\ UNCHANGED <<nonFaVars, fileVars, fieldVars, evalVars>>

\* with open(self.scoring_file) ...: self.scoring_config = yaml.safe_load(f)
LoadScoring ==
    /\ rpc = "load_scoring"
    /\ IF scoringFile = "missing"
       THEN rpc' = "failed" /\ UNCHANGED scoring_config
       ELSE rpc' = "load_recs" /\ scoring_config' = ScoringYaml(scoringFile)
    /\ UNCHANGED <<nonFaVars, fileVars, recommendations_config, questions_config, dimension_config,
                   risk_thresholds, risk_styling, default_scoring, preReload,
                   evalVars>>

\* with open(self.recommendations_file) ...: self.recommendations_config = ...
LoadRecs ==
    /\ rpc = "load_recs"
    /\ IF recsFile = "missing"
       THEN rpc' = "failed" /\ UNCHANGED recommendations_config
       ELSE rpc' = "load_questions" /\ recommendations_config' = RecsYaml(recsFile)
    /\ UNCHANGED <<nonFaVars, fileVars, scoring_config, questions_config, dimension_config,
                   risk_thresholds, risk_styling, default_scoring, preReload,
                   evalVars>>

\* self.questions_config = questions_loader.load_all_questions()
LoadQuestions ==
    /\ rpc = "load_questions"
    /\ questions_config' = load_all_questions(QuestionsDirContent(questionsDir))
    /\ rpc' = "set_dimension_config"
    /\ UNCHANGED <<nonFaVars, fileVars, scoring_config, recommendations_config, dimension_config,
                   risk_thresholds, risk_styling, default_scoring, preReload,
                   evalVars>>

SetDimensionConfig_Stale ==
    /\ rpc = "set_dimension_config"
    /\ rpc' = "set_risk_thresholds"
    /\ UNCHANGED <<nonFaVars, fileVars, fieldVars, preReload, evalVars>>

\* self.dimension_config = self.scoring_config['dimensions']
SetDimensionConfig ==
    /\ rpc = "set_dimension_config"
    /\ IF "dimensions" \in DOMAIN scoring_config
       THEN rpc' = "set_risk_thresholds" /\ dimension_config' = scoring_config.dimensions
       ELSE rpc' = "failed" /\ UNCHANGED dimension_config
    /\ UNCHANGED <<nonFaVars, fileVars, scoring_config, recommendations_config, questions_config,
                   risk_thresholds, risk_styling, default_scoring, preReload,
                   evalVars>>

\* self.risk_thresholds = self.scoring_config['risk_thresholds']
SetRiskThresholds ==
    /\ rpc = "set_risk_thresholds"
    /\ IF "risk_thresholds" \in DOMAIN scoring_config
       THEN rpc' = "set_risk_styling" /\ risk_thresholds' = scoring_config.risk_thresholds
       ELSE rpc' = "failed" /\ UNCHANGED risk_thresholds
    /\ UNCHANGED <<nonFaVars, fileVars, scoring_config, recommendations_config, questions_config,
                   dimension_config, risk_styling, default_scoring, preReload,
                   evalVars>>

\* self.risk_styling = self.scoring_config['risk_styling']
SetRiskStyling ==
    /\ rpc = "set_risk_styling"
    /\ IF "risk_styling" \in DOMAIN scoring_config
       THEN rpc' = "set_default_scoring" /\ risk_styling' = scoring_config.risk_styling
       ELSE rpc' = "failed" /\ UNCHANGED risk_styling
    /\ UNCHANGED <<nonFaVars, fileVars, scoring_config, recommendations_config, questions_config,
                   dimension_config, risk_thresholds, default_scoring, preReload,
                   evalVars>>

\* self.default_scoring = self.scoring_config.get('default_scoring', {})
SetDefaultScoring ==
    /\ rpc = "set_default_scoring"
    /\ default_scoring' = Get(scoring_config, "default_scoring", <<>>)
    /\ rpc' = "done"
    /\ UNCHANGED <<nonFaVars, fileVars, scoring_config, recommendations_config, questions_config,
                   dimension_config, risk_thresholds, risk_styling, preReload,
                   evalVars>>

\* --- assess_risk, one read of the object's fields at a time
\* The call begins: assessment_data is bound.
EvalStart ==
    /\ ev.pc \in {"idle", "done"}
    /\ \E a \in AnswerSets : ev' = [EvIdle EXCEPT !.pc = "score", !.answers = a]
    /\ evStart' = [config |-> ActiveConfig,
                   clean |-> /\ rpc = "done"
                             /\ scoringFile # "missing"
                             /\ ScoringYaml(scoringFile) = scoring_config,
                   edited |-> FALSE]
    /\ UNCHANGED <<nonFaVars, fileVars, fieldVars, reloadVars>>

\* Where the loop over the dimensions goes after dimension number i.
AfterDimension(i) == IF i = Len(Dimensions) THEN "level" ELSE "score"

\* First half of a loop iteration: skip a dimension that is not configured,
\* else score the answers that belong to it.
EvalScoreQuestions ==
    /\ ev.pc = "score"
    /\ LET dimension == Dimensions[ev.i]
       IN  IF dimension \notin DOMAIN dimension_config
           THEN ev' = [ev EXCEPT !.pc = AfterDimension(ev.i), !.i = ev.i + 1]
           ELSE ev' = [ev EXCEPT
                         !.pc = "aggregate",
                         !.dimension_question_scores =
                             DimensionQuestionScores(dimension_config, default_scoring,
                                                     dimension, ev.answers)]
    /\ UNCHANGED <<nonFaVars, fileVars, fieldVars, reloadVars, evStart>>

\* Second half: aggregate the dimension and store both results.
EvalAggregate ==
    /\ ev.pc = "aggregate"
    /\ LET dimension == Dimensions[ev.i]
           dqs == ev.dimension_question_scores
       IN  ev' = [ev EXCEPT
                    !.pc = AfterDimension(ev.i),
                    !.i = ev.i + 1,
                    !.dimension_scores =
                        (dimension :> DimensionScore(dimension_config, dimension, dqs))
                        @@ ev.dimension_scores,
                    !.question_scores = (dimension :> dqs) @@ ev.question_scores]
    /\ UNCHANGED <<nonFaVars, fileVars, fieldVars, reloadVars, evStart>>

\* total_score = sum(...); risk_level = self.determine_risk_level(total_score)
EvalLevel ==
    /\ ev.pc = "level"
    /\ LET total_score == TotalScore(ev.dimension_scores)
       IN  ev' = [ev EXCEPT
                    !.pc = "base_recs",
                    !.total_score = total_score,
                    !.risk_level = determine_risk_level(risk_thresholds, total_score)]
    /\ UNCHANGED <<nonFaVars, fileVars, fieldVars, reloadVars, evStart>>

\* base_recommendations = self.get_recommendations(risk_level)
EvalBaseRecs ==
    /\ ev.pc = "base_recs"
    /\ ev' = [ev EXCEPT
                !.pc = "cond_recs",
                !.recommendations =
                    get_recommendations(recommendations_config, ev.risk_level)]
    /\ UNCHANGED <<nonFaVars, fileVars, fieldVars, reloadVars, evStart>>

EvalCondRecs_ExtendsConfig ==
    /\ ev.pc = "cond_recs"
    /\ LET conditional ==
               get_conditional_recommendations(recommendations_config, ev.answers)
           by_level == Get(recommendations_config, "by_risk_level", EmptyDict)
       IN  /\ ev' = [ev EXCEPT !.pc = "done",
                                !.conditional_recommendations = conditional]
           /\ recommendations_config' =
                 [k \in DOMAIN recommendations_config \cup {"by_risk_level"} |->
                    IF k = "by_risk_level"
                    THEN (ev.risk_level :> (ev.recommendations \o conditional))
                         @@ by_level
                    ELSE recommendations_config[k]]
    /\ UNCHANGED <<nonFaVars, fileVars, scoring_config, questions_config,
                   dimension_config, risk_thresholds, risk_styling, default_scoring,
                   reloadVars, evStart>>

\* conditional_recommendations = self.get_conditional_recommendations(...)
EvalCondRecs ==
    /\ ev.pc = "cond_recs"
    /\ ev' = [ev EXCEPT
                !.pc = "done",
                !.conditional_recommendations =
                    get_conditional_recommendations(recommendations_config, ev.answers)]
    /\ UNCHANGED <<nonFaVars, fileVars, fieldVars, reloadVars, evStart>>

FANext ==
    \/ EditScoring
    \/ EditRecs
    \/ EditQuestions
    \/ ReloadStart
    \/ LoadScoring
    \/ LoadRecs
    \/ LoadQuestions
    \/ SetDimensionConfig
    \/ SetRiskThresholds
    \/ SetRiskStyling
    \/ SetDefaultScoring
    \/ EvalStart
    \/ EvalScoreQuestions
    \/ EvalAggregate
    \/ EvalLevel
    \/ EvalBaseRecs
    \/ EvalCondRecs

\* The RiskAssessment a finished call returns.
EvResult ==
    [risk_score |-> ev.total_score,
     risk_level |-> ev.risk_level,
     dimension_scores |-> ev.dimension_scores,
     question_scores |-> ev.question_scores,
     recommendations |-> ev.recommendations,
     conditional_recommendations |-> ev.conditional_recommendations]

\* ----------------------------------------------------------- ConfigService
\* The sources in the order _load_all treats them.  cache[s] stands for the
\* field the source is loaded into: _questions_config, _flexible_scoring,
\* _recommendations, _legacy_scoring.  The questions directory is one unit
\* whose mtime is the latest mtime of its files.
CsSources == <<"questions_dir", "scoring_flexible", "recommendations", "legacy_scoring">>

CsSourceSet == {CsSources[k] : k \in 1..Len(CsSources)}

\* The threads that call reload_if_changed.
Loaders == {"poller", "admin"}

\* yaml.safe_load of scoring.yaml (the legacy scoring).
LegacyYaml(name) ==
    CASE name = "A" -> [scoring |-> [dimensions |-> [autonomy |-> AutonomyScoring]],
                        risk_styling |-> "legacy styling A"]
      [] name = "B" -> [scoring |-> [dimensions |-> [autonomy |-> ScopeScoring]]]

\* The contents a source takes.
CsContents(s) ==
    IF s = "questions_dir" THEN {"A", "B"} ELSE {"A", "B", "missing"}

\* _safe_load_yaml(path) on a file with the named content
safe_load_yaml(s, name) ==
    IF name = "missing" THEN EmptyDict
    ELSE CASE s = "scoring_flexible" -> ScoringYaml(name)
           [] s = "recommendations" -> RecsYaml(name)
           [] s = "legacy_scoring" -> LegacyYaml(name)

\* What _load_all assigns to the source's field.
CsLoaded(s, name) ==
    IF s = "questions_dir" THEN load_all_questions(QuestionsDirContent(name))
    ELSE safe_load_yaml(s, name)

\* _file_mtime(path) / _dir_latest_mtime(directory)
file_mtime(s) == IF csFile[s].content = "missing" THEN 0 ELSE csFile[s].mtime

\* _has_changed(key, path) / _has_questions_changed()
has_changed(s) == file_mtime(s) # Get(mtimes, s, -1)

\* get_questions_config, get_dimension_config, get_risk_thresholds,
\* get_recommendations
get_questions_config == cache["questions_dir"]
get_dimension_config == Get(cache["scoring_flexible"], "dimensions", EmptyDict)
get_risk_thresholds == Get(cache["scoring_flexible"], "risk_thresholds", <<>>)
get_recommendations_config == cache["recommendations"]

\* The configuration the getters return at one instant.
CsView ==
    [questions |-> get_questions_config,
     dimensions |-> get_dimension_config,
     thresholds |-> get_risk_thresholds,
     recommendations |-> get_recommendations_config]

RdIdle == [pc |-> "idle", got |-> EmptyDict]

\* The object after __init__, whose _load_all(force=True) read the contents A.
CSInit ==
    /\ csFile = [s \in CsSourceSet |-> [content |-> "A", mtime |-> 1]]
    /\ csClock = 1
    /\ csEdits = 0
    /\ cache = [s \in CsSourceSet |-> CsLoaded(s, "A")]
    /\ mtimes = [s \in CsSourceSet |-> 1]
    /\ lock = "free"
    /\ loader = [l \in Loaders |-> [pc |-> "idle", k |-> 1]]
    /\ dirty = [l \in Loaders |-> FALSE]
    /\ committed =
         {[questions |-> load_all_questions(QuestionsDirContent("A")),
           dimensions |-> ScoringYaml("A").dimensions,
           thresholds |-> ScoringYaml("A").risk_thresholds,
           recommendations |-> RecsYaml("A")]}
    /\ rd = RdIdle

\* An admin edit of one source: new content, later mtime.
CsEdit ==
    /\ csEdits < MaxEdits
    /\ \E s \in CsSourceSet :
         \E c \in CsContents(s) \ {csFile[s].content} :
            csFile' = [csFile EXCEPT ![s] = [content |-> c, mtime |-> csClock + 1]]
    /\ csClock' = csClock + 1
    /\ csEdits' = csEdits + 1
    /\ dirty' = [l \in Loaders |-> TRUE]
    /\ UNCHANGED <<nonCsVars, cache, mtimes, lock, loader, committed, rd>>

\* reload_if_changed() is called: _load_all(force=False) begins.
CallReload(l) ==
    /\ loader[l].pc \in {"idle", "returned"}
    /\ loader' = [loader EXCEPT ![l] = [pc |-> "acquire", k |-> 1]]
    /\ dirty' = [dirty EXCEPT ![l] = FALSE]
    /\ UNCHANGED <<nonCsVars, csFile, csClock, csEdits, cache, mtimes, lock, committed,
                   rd>>

\* with self._lock:
Acquire(l) ==
    /\ loader[l].pc = "acquire"
    /\ lock = "free"
    /\ lock' = l
    /\ loader' = [loader EXCEPT ![l] = [pc |-> "probe", k |-> 1]]
    /\ UNCHANGED <<nonCsVars, csFile, csClock, csEdits, cache, mtimes, dirty,
                   committed, rd>>

\* Where _load_all goes after source number k.
AfterSource(k) ==
    IF k = Len(CsSources) THEN [pc |-> "release", k |-> k] ELSE [pc |-> "probe", k |-> k + 1]

Probe_Forced(l) ==
    /\ loader[l].pc = "probe"
    /\ loader' = [loader EXCEPT ![l] = [pc |-> "load", k |-> loader[l].k]]
    /\ UNCHANGED <<nonCsVars, csFile, csClock, csEdits, cache, mtimes, lock, dirty,
                   committed, rd>>

\* if force or self._has_changed(key, path):
Probe(l) ==
    /\ loader[l].pc = "probe"
    /\ LET k == loader[l].k
       IN  loader' = [loader EXCEPT ![l] =
                        IF has_changed(CsSources[k]) THEN [pc |-> "load", k |-> k]
                        ELSE AfterSource(k)]
    /\ UNCHANGED <<nonCsVars, csFile, csClock, csEdits, cache, mtimes, lock, dirty,
                   committed, rd>>

\* self._<field> = <load the source>
Load(l) ==
    /\ loader[l].pc = "load"
    /\ LET s == CsSources[loader[l].k]
       IN  cache' = [cache EXCEPT ![s] = CsLoaded(s, csFile[s].content)]
    /\ loader' = [loader EXCEPT ![l].pc = "stamp"]
    /\ UNCHANGED <<nonCsVars, csFile, csClock, csEdits, mtimes, lock, dirty,
                   committed, rd>>

\* self._mtimes[key] = <the source's mtime now>
Stamp(l) ==
    /\ loader[l].pc = "stamp"
    /\ LET s == CsSources[loader[l].k]
       IN  mtimes' = [mtimes EXCEPT ![s] = file_mtime(s)]
    /\ loader' = [loader EXCEPT ![l] = AfterSource(loader[l].k)]
    /\ UNCHANGED <<nonCsVars, csFile, csClock, csEdits, cache, lock, dirty,
                   committed, rd>>

\* The with block ends and _load_all returns.
Release(l) ==
    /\ loader[l].pc = "release"
    /\ lock' = "free"
    /\ loader' = [loader EXCEPT ![l].pc = "returned"]
    /\ committed' = committed \cup {CsView}
    /\ UNCHANGED <<nonCsVars, csFile, csClock, csEdits, cache, mtimes, dirty,
                   rd>>

\* A reader obtains the configuration, one getter at a time.
RdStart ==
    /\ rd.pc \in {"idle", "done"}
    /\ rd' = [pc |-> "questions", got |-> EmptyDict]
    /\ UNCHANGED <<nonCsVars, csFile, csClock, csEdits, cache, mtimes, lock, loader,
                   dirty, committed>>

RdQuestions ==
    /\ rd.pc = "questions"
    /\ rd' = [pc |-> "dimensions", got |-> [questions |-> get_questions_config]]
    /\ UNCHANGED <<nonCsVars, csFile, csClock, csEdits, cache, mtimes, lock, loader,
                   dirty, committed>>

RdDimensions ==
    /\ rd.pc = "dimensions"
    /\ rd' = [pc |-> "thresholds",
              got |-> [questions |-> rd.got.questions,
                       dimensions |-> get_dimension_config]]
    /\ UNCHANGED <<nonCsVars, csFile, csClock, csEdits, cache, mtimes, lock, loader,
                   dirty, committed>>

RdThresholds ==
    /\ rd.pc = "thresholds"
    /\ rd' = [pc |-> "recommendations",
              got |-> [questions |-> rd.got.questions,
                       dimensions |-> rd.got.dimensions,
                       thresholds |-> get_risk_thresholds]]
    /\ UNCHANGED <<nonCsVars, csFile, csClock, csEdits, cache, mtimes, lock, loader,
                   dirty, committed>>

RdRecommendations ==
    /\ rd.pc = "recommendations"
    /\ rd' = [pc |-> "done",
              got |-> [questions |-> rd.got.questions,
                       dimensions |-> rd.got.dimensions,
                       thresholds |-> rd.got.thresholds,
                       recommendations |-> get_recommendations_config]]
    /\ UNCHANGED <<nonCsVars, csFile, csClock, csEdits, cache, mtimes, lock, loader,
                   dirty, committed>>

CSNext ==
    \/ CsEdit
    \/ \E l \in Loaders : CallReload(l)
    \/ \E l \in Loaders : Acquire(l)
    \/ \E l \in Loaders : Probe(l)
    \/ \E l \in Loaders : Load(l)
    \/ \E l \in Loaders : Stamp(l)
    \/ \E l \in Loaders : Release(l)
    \/ RdStart
    \/ RdQuestions
    \/ RdDimensions
    \/ RdThresholds
    \/ RdRecommendations

\* ------------------------------------------- direct calls of the aggregator
\* The dimension the direct calls aggregate.
AggDim == "autonomy"

\* The question ids of the direct calls: two scoring questions and one
\* free-text reasoning field.
AggIds == {<<"autonomy">>, <<"autonomy", "_scope">>, <<"autonomy", "_reasoning">>}

AggScoreValues == {ToRat(i) : i \in 0..MaxScore}

AggWeightValues == {Rat(h, 2) : h \in 0..MaxWeightHalves}

\* aggregation names drawn: the five strategies and one unknown name
AggStrategies == {"sum", "average", "weighted_average", "max", "min", "median"}

\* Every question_scores dict over a subset of AggIds.
AggScoreMaps == UNION {[S -> AggScoreValues] : S \in SUBSET AggIds}

\* The answer scores every drawn question entry carries.
AggScoring == [narrow |-> 1, broad |-> 4]

\* A question's scoring entry: absent, one without a weight (weight = {}),
\* or one with the weight w (weight = {w}).
AggEntryChoices ==
    {[present |-> FALSE, weight |-> {}]} \cup
    {[present |-> TRUE, weight |-> ws] :
        ws \in {{}} \cup {{w} : w \in AggWeightValues}}

AggEntry(e) ==
    IF e.weight = {} THEN [scoring |-> AggScoring]
    ELSE [scoring |-> AggScoring, weight |-> CHOOSE w \in e.weight : TRUE]

\* The 'questions' mapping of the dimension for a choice of entries.
AggQuestions(e1, e2) ==
    LET choice(q) == IF q = <<"autonomy">> THEN e1 ELSE e2
        present == {q \in {<<"autonomy">>, <<"autonomy", "_scope">>} : choice(q).present}
    IN  [q \in present |-> AggEntry(choice(q))]

AggInit ==
    /\ \E s \in AggStrategies, e1 \in AggEntryChoices, e2 \in AggEntryChoices :
          aggConfig = [autonomy |-> [aggregation |-> s, questions |-> AggQuestions(e1, e2)]]
    /\ aggScores \in AggScoreMaps
    /\ aggResult = Zero
    /\ aggPc = "ready"

\* One call aggregate_dimension_scores(AggDim, aggScores).
Aggregate ==
    /\ aggPc = "ready"
    /\ aggResult' = aggregate_dimension_scores(aggConfig, AggDim, aggScores)
    /\ aggPc' = "done"
    /\ UNCHANGED <<aggConfig, aggScores, nonAggVars>>

AggNext == Aggregate

\* -------------------------------------------- direct calls of the classifier
\* Thresholds whose ranges share the bound 8.
ThresholdsOverlapping ==
    << [name |-> "low", min |-> 4, max |-> 8, level |-> "low"],
       [name |-> "medium", min |-> 8, max |-> 11, level |-> "medium"],
       [name |-> "high", min |-> 12, max |-> 16, level |-> "high"] >>

\* Thresholds whose lowest level is not called low.
ThresholdsRenamed ==
    << [name |-> "minimal", min |-> 4, max |-> 7, level |-> "minimal"],
       [name |-> "moderate", min |-> 8, max |-> 11, level |-> "moderate"],
       [name |-> "severe", min |-> 12, max |-> 16, level |-> "severe"] >>

\* Thresholds that leave 8..9 uncovered, written highest range first.
ThresholdsGapped ==
    << [name |-> "high", min |-> 10, max |-> 16, level |-> "high"],
       [name |-> "low", min |-> 4, max |-> 7, level |-> "low"] >>

\* The risk_thresholds the direct calls read.
ClsThresholdSets ==
    {ThresholdsA, ThresholdsB, ThresholdsOverlapping, ThresholdsRenamed, ThresholdsGapped}

\* The scores of the direct calls: every multiple of 1/10 up to MaxTotal.
ClsScores == {Rat(t, 10) : t \in 0..(10 * MaxTotal)}

ClsInit ==
    /\ clsThresholds \in ClsThresholdSets
    /\ clsScore \in ClsScores
    /\ clsLevel = ""
    /\ clsPc = "ready"

\* One call determine_risk_level(clsScore).
Classify ==
    /\ clsPc = "ready"
    /\ clsLevel' = determine_risk_level(clsThresholds, clsScore)
    /\ clsPc' = "done"
    /\ UNCHANGED <<clsThresholds, clsScore, nonClsVars>>

ClsNext == Classify

\* ---------------------------------- direct calls of the conditional resolver
\* The rules the drawn recommendations are made of: the two-field rule of the
\* recommendations file, a one-field rule with the same text, a rule allowing
\* two answers, a rule on a field the form may not ask, a rule whose
\* recommendation is empty, and a rule without conditions.
RecRulePool ==
    { [condition |-> (<<"impact">> :> {"external"}) @@ (<<"oversight">> :> {"minimal"}),
       recommendation |-> "escalate"],
      [condition |-> (<<"impact">> :> {"external"}),
       recommendation |-> "escalate"],
      [condition |-> (<<"oversight">> :> {"minimal", "exception"}),
       recommendation |-> "add checkpoints"],
      [condition |-> (<<"data_sensitivity">> :> {"restricted"}),
       recommendation |-> "encrypt"],
      [condition |-> (<<"impact">> :> {"external"}),
       recommendation |-> ""],
      [condition |-> EmptyDict,
       recommendation |-> "keep an inventory"] }

\* Every 'conditional' list of at most MaxRules rules of the pool.
RecRuleLists == UNION {[1..n -> RecRulePool] : n \in 0..MaxRules}

\* The recommendations_config of the direct calls: with a 'conditional' list,
\* or without the key.
RecConfigs == {[conditional |-> rules] : rules \in RecRuleLists} \cup {EmptyDict}

\* The fields of the drawn assessment_data and the answers each can take.
RecFieldAnswers ==
    (<<"impact">> :> {"external", "internal"}) @@
    (<<"oversight">> :> {"minimal", "checkpoint"}) @@
    (<<"data_sensitivity">> :> {"restricted"})

\* Every assessment_data over a subset of the fields.
RecAnswerSets ==
    UNION {{a \in [F -> UNION {RecFieldAnswers[f] : f \in F}] :
                \A f \in F : a[f] \in RecFieldAnswers[f]} :
           F \in SUBSET DOMAIN RecFieldAnswers}

RecInit ==
    /\ recConfig \in RecConfigs
    /\ recAnswers \in RecAnswerSets
    /\ recResult = <<>>
    /\ recPc = "ready"

\* One call get_conditional_recommendations(recAnswers).
Resolve ==
    /\ recPc = "ready"
    /\ recResult' = get_conditional_recommendations(recConfig, recAnswers)
    /\ recPc' = "done"
    /\ UNCHANGED <<recConfig, recAnswers, nonRecVars>>

RecNext == Resolve

\* --------------------------------------- direct calls of the question scorer
\* The dimension and the question of the direct calls.
QsDim == "autonomy"

QsQuestion == <<"autonomy">>

\* The 'questions' mapping of the dimension: the question absent, present
\* without 'scoring', or present with a scoring map.
QsQuestionConfigs ==
    { EmptyDict,
      QsQuestion :> [weight |-> One],
      QsQuestion :> [weight |-> One, scoring |-> [agent |-> 3]],
      QsQuestion :> [weight |-> One, scoring |-> [agent |-> 3, low |-> 2]] }

\* The default scales a scoring file may declare.
QsScalePool ==
    { [name |-> "standard", scale |-> [low |-> 1, high |-> 4]],
      [name |-> "inverse", scale |-> [low |-> 4, high |-> 1]],
      [name |-> "roles", scale |-> [agent |-> 1, low |-> 3]] }

\* default_scoring: up to MaxScales scales of distinct names, in file order.
QsScaleLists ==
    UNION {{s \in [1..n -> QsScalePool] : \A i, j \in 1..n : i # j => s[i].name # s[j].name} :
              n \in 0..MaxScales}

QsAnswers == {"low", "high", "agent", "other"}

QsInit ==
    /\ \E qc \in QsQuestionConfigs :
          qsConfig = [autonomy |-> [aggregation |-> "max", questions |-> qc]]
    /\ qsDefaults \in QsScaleLists
    /\ qsAnswer \in QsAnswers
    /\ qsResult = Zero
    /\ qsPc = "ready"

\* One call calculate_question_score(QsDim, QsQuestion, qsAnswer).
ScoreQuestion ==
    /\ qsPc = "ready"
    /\ qsResult' = calculate_question_score(qsConfig, qsDefaults, QsDim, QsQuestion, qsAnswer)
    /\ qsPc' = "done"
    /\ UNCHANGED <<serviceVars, valVars, admVars, qsConfig, qsDefaults, qsAnswer>>

QsNext == ScoreQuestion

\* ---------------------------------------------------------------- validator
\* The dimensions validate_questions loops over, in its order.
ValDimensions == Dimensions

\* The errors and warnings of one question of a dimension: each is
\* <<kind, dimension, question id, option>>.
QuestionIssues(scoring_data, dimension, question_id, question) ==
    LET scoring_questions ==
            Get(Get(Get(scoring_data, "dimensions", EmptyDict), dimension, EmptyDict),
                "questions", EmptyDict)
        title_issue ==
            IF "title" \notin DOMAIN question
            THEN {<<"missing title", dimension, question_id, "">>} ELSE {}
    IN  title_issue \cup
        (IF "options" \notin DOMAIN question \/ question.options = {}
         THEN {<<"missing options", dimension, question_id, "">>}
         ELSE IF question_id \notin DOMAIN scoring_questions
         THEN {<<"no scoring configuration", dimension, question_id, "">>}
         ELSE LET question_scoring ==
                      Get(scoring_questions[question_id], "scoring", EmptyDict)
              IN  {<<"option has no score", dimension, question_id, option_key>> :
                      option_key \in question.options \ DOMAIN question_scoring})

\* The errors and warnings of one dimension.
DimensionIssues(dir, scoring_data, dimension) ==
    IF dimension \notin DOMAIN dir
    THEN {<<"missing question file", dimension, <<>>, "">>}
    ELSE LET questions ==
                 IF dir[dimension].top = <<dimension, "_questions">>
                 THEN dir[dimension].questions ELSE EmptyDict
         IN  UNION {QuestionIssues(scoring_data, dimension, q, questions[q]) :
                       q \in DOMAIN questions}

\* validate_questions(): what it reports for the questions directory and the
\* scoring file; when the scoring file cannot be loaded it returns before
\* reporting anything.
validate_questions(dir, scoring) ==
    IF ~scoring.loadable THEN {}
    ELSE UNION {DimensionIssues(dir, scoring.data, ValDimensions[i]) :
                   i \in 1..Len(ValDimensions)}

\* 'dimensions' whose oversight category scores a question that no question
\* file defines.
DimensionsWithOrphan ==
    [DimensionsWith(One) EXCEPT
        !.oversight.questions =
            (<<"oversight", "_frequency">> :> [weight |-> One, scoring |-> ScopeScoring])
            @@ DimensionsWith(One).oversight.questions]

\* 'dimensions' without the category impact.
DimensionsWithoutImpact ==
    [d \in {"autonomy", "oversight"} |-> DimensionsWith(One)[d]]

\* The scoring files the validator is run on: every pairing of a 'dimensions'
\* mapping with thresholds, a file without 'dimensions', an unreadable file.
ValScorings ==
    {[loadable |-> TRUE, data |-> [dimensions |-> dims, risk_thresholds |-> thr]] :
        dims \in {DimensionsWith(One), DimensionsWithOrphan, DimensionsWithoutImpact},
        thr \in ClsThresholdSets}
    \cup {[loadable |-> TRUE, data |-> [risk_thresholds |-> thr]] : thr \in ClsThresholdSets}
    \cup {[loadable |-> FALSE, data |-> EmptyDict]}

\* The questions directories the validator is run on.
ValQuestionsNames == {"A", "B", "D"}

ValInit ==
    /\ valQuestions \in ValQuestionsNames
    /\ valScoring \in ValScorings
    /\ valIssues = {}
    /\ valPc = "ready"

\* One run of validate_questions().
Validate ==
    /\ valPc = "ready"
    /\ valIssues' = validate_questions(QuestionsDirContent(valQuestions), valScoring)
    /\ valPc' = "done"
    /\ UNCHANGED <<serviceVars, qsVars, admVars, valQuestions, valScoring>>

ValNext == Validate

\* ----------------------------------------------------------- admin requests
\* The dimension the admin requests work on, and the question ids they name.
AdmDim == "autonomy"

AdmIds == {<<"autonomy", "_pace">>, <<"autonomy", "_reach">>}

\* The threads of the web server that handle admin requests.
AdmThreads == {1, 2}

\* A thread that handles no request: 'data' is the dict a handler has loaded
\* from a file (reduced to its question ids).
AdmIdle == [pc |-> "idle", id |-> <<>>, data |-> {}]

\* questions/autonomy.yaml and scoring_flexible.yaml (each reduced to the
\* question ids it holds for the dimension) agree before the first request.
AdmInit ==
    /\ admQuestions \in SUBSET AdmIds
    /\ admScoring = admQuestions
    /\ admReq = [t \in AdmThreads |-> AdmIdle]
    /\ admLog = <<>>
    /\ admCount = 0

\* _handle_add_question_post up to the existence check: a thread takes an
\* add request; an id found in the question file is rejected.
AddBegin ==
    \E t \in AdmThreads, id \in AdmIds :
        /\ admReq[t].pc = "idle"
        /\ admCount < MaxAdminRequests
        /\ admCount' = admCount + 1
        /\ admReq' = IF id \in admQuestions THEN admReq
                     ELSE [admReq EXCEPT ![t] = [pc |-> "add_load_q", id |-> id, data |-> {}]]
        /\ UNCHANGED <<serviceVars, valVars, qsVars, admQuestions, admScoring, admLog>>

\* _add_question_to_dimension_file: data = self.load_yaml_file(question_file)
AddLoadQuestions ==
    \E t \in AdmThreads :
        /\ admReq[t].pc = "add_load_q"
        /\ admReq' = [admReq EXCEPT ![t].pc = "add_save_q", ![t].data = admQuestions]
        /\ UNCHANGED <<serviceVars, valVars, qsVars, admQuestions, admScoring, admLog, admCount>>

\* data[dimension_key][question_id] = ...; self.save_yaml_file(question_file, data)
AddSaveQuestions ==
    \E t \in AdmThreads :
        /\ admReq[t].pc = "add_save_q"
        /\ admQuestions' = admReq[t].data \cup {admReq[t].id}
        /\ admReq' = [admReq EXCEPT ![t].pc = "add_load_s", ![t].data = {}]
        /\ UNCHANGED <<serviceVars, valVars, qsVars, admScoring, admLog, admCount>>

\* _add_question_to_scoring_file: scoring_data = self.get_scoring_config()
AddLoadScoring ==
    \E t \in AdmThreads :
        /\ admReq[t].pc = "add_load_s"
        /\ admReq' = [admReq EXCEPT ![t].pc = "add_save_s", ![t].data = admScoring]
        /\ UNCHANGED <<serviceVars, valVars, qsVars, admQuestions, admScoring, admLog, admCount>>

\* scoring_data[...][question_id] = ...; save; flash success.
AddSaveScoring ==
    \E t \in AdmThreads :
        /\ admReq[t].pc = "add_save_s"
        /\ admScoring' = admReq[t].data \cup {admReq[t].id}
        /\ admLog' = Append(admLog, [op |-> "add", id |-> admReq[t].id])
        /\ admReq' = [admReq EXCEPT ![t] = AdmIdle]
        /\ UNCHANGED <<serviceVars, valVars, qsVars, admQuestions, admCount>>

\* delete_question: a thread takes a delete request and loads the question
\* file; the file is rewritten only when it holds the id.
DelLoadQuestions ==
    \E t \in AdmThreads, id \in AdmIds :
        /\ admReq[t].pc = "idle"
        /\ admCount < MaxAdminRequests
        /\ admCount' = admCount + 1
        /\ admReq' = [admReq EXCEPT ![t] =
                        [pc |-> IF id \in admQuestions THEN "del_save_q" ELSE "del_load_s",
                         id |-> id, data |-> admQuestions]]
        /\ UNCHANGED <<serviceVars, valVars, qsVars, admQuestions, admScoring, admLog>>

\* del data[dimension_key][question_id]; self.save_yaml_file(question_file, data)
DelSaveQuestions ==
    \E t \in AdmThreads :
        /\ admReq[t].pc = "del_save_q"
        /\ admQuestions' = admReq[t].data \ {admReq[t].id}
        /\ admReq' = [admReq EXCEPT ![t].pc = "del_load_s", ![t].data = {}]
        /\ UNCHANGED <<serviceVars, valVars, qsVars, admScoring, admLog, admCount>>

\* scoring_data = self.get_scoring_config(); without the id in it the request
\* reports success at once.
DelLoadScoring ==
    \E t \in AdmThreads :
        /\ admReq[t].pc = "del_load_s"
        /\ IF admReq[t].id \in admScoring
           THEN /\ admReq' = [admReq EXCEPT ![t].pc = "del_save_s", ![t].data = admScoring]
                /\ admLog' = admLog
           ELSE /\ admReq' = [admReq EXCEPT ![t] = AdmIdle]
                /\ admLog' = Append(admLog, [op |-> "delete", id |-> admReq[t].id])
        /\ UNCHANGED <<serviceVars, valVars, qsVars, admQuestions, admScoring, admCount>>

\* del scoring_data[...][question_id]; save; flash success.
DelSaveScoring ==
    \E t \in AdmThreads :
        /\ admReq[t].pc = "del_save_s"
        /\ admScoring' = admReq[t].data \ {admReq[t].id}
        /\ admLog' = Append(admLog, [op |-> "delete", id |-> admReq[t].id])
        /\ admReq' = [admReq EXCEPT ![t] = AdmIdle]
        /\ UNCHANGED <<serviceVars, valVars, qsVars, admQuestions, admCount>>

AdmNext ==
    \/ AddBegin
    \/ AddLoadQuestions
    \/ AddSaveQuestions
    \/ AddLoadScoring
    \/ AddSaveScoring
    \/ DelLoadQuestions
    \/ DelSaveQuestions
    \/ DelLoadScoring
    \/ DelSaveScoring

\* ------------------------------------------------------------------ startup
\* The files as the FlexibleAIRiskAssessor constructor finds them, and the
\* object before __init__ has assigned any field.
FAUnbuilt ==
    /\ scoringFile \in ScoringNames
    /\ recsFile \in RecsNames
    /\ questionsDir \in QuestionsNames
    /\ edits = 0
    /\ scoring_config = EmptyDict
    /\ recommendations_config = EmptyDict
    /\ questions_config = EmptyDict
    /\ dimension_config = EmptyDict
    /\ risk_thresholds = <<>>
    /\ risk_styling = ""
    /\ default_scoring = <<>>
    /\ rpc = "unbuilt"
    /\ preReload = [dimension_config |-> EmptyDict, default_scoring |-> <<>>,
                    risk_thresholds |-> <<>>, recommendations_config |-> EmptyDict,
                    questions_config |-> EmptyDict]
    /\ ev = EvIdle
    /\ evStart = [config |-> preReload, clean |-> FALSE, edited |-> FALSE]

\* FlexibleAIRiskAssessor(): __init__ stores the paths and calls
\* reload_configs, whose exception, if any, leaves the caller without object.
FaConstruct ==
    /\ rpc = "unbuilt"
    /\ rpc' = "load_scoring"
    /\ preReload' = ActiveConfig
    /\ UNCHANGED <<nonFaVars, fileVars, fieldVars, evalVars>>

\* The sources as the ConfigService constructor finds them, and the object
\* with the empty caches __init__ starts from.
CSUnbuilt ==
    /\ csFile \in [CsSourceSet -> [content : {"A", "B", "missing"}, mtime : {1}]]
    /\ \A s \in CsSourceSet : csFile[s].content \in CsContents(s)
    /\ csClock = 1
    /\ csEdits = 0
    /\ cache = [s \in CsSourceSet |-> EmptyDict]
    /\ mtimes = EmptyDict
    /\ lock = "free"
    /\ loader = [l \in Loaders |-> [pc |-> "idle", k |-> 1]]
    /\ dirty = [l \in Loaders |-> FALSE]
    /\ committed = {}
    /\ rd = RdIdle
    /\ csBoot = "unbuilt"

\* What _load_all(force=True) leaves in the caches.
BuiltCache == [s \in CsSourceSet |-> CsLoaded(s, csFile[s].content)]

\* ConfigService(): __init__ runs _load_all(force=True) before the object
\* is shared; nothing in it raises, so the object is always produced.
CsConstruct ==
    /\ csBoot = "unbuilt"
    /\ cache' = BuiltCache
    /\ mtimes' = [s \in CsSourceSet |-> file_mtime(s)]
    /\ committed' =
          {[questions |-> BuiltCache["questions_dir"],
            dimensions |-> Get(BuiltCache["scoring_flexible"], "dimensions", EmptyDict),
            thresholds |-> Get(BuiltCache["scoring_flexible"], "risk_thresholds", <<>>),
            recommendations |-> BuiltCache["recommendations"]]}
    /\ csBoot' = "serving"
    /\ UNCHANGED <<aggVars, faVars, clsVars, recVars, toolVars, csFile, csClock,
                   csEdits, lock, loader, dirty, rd>>

BootNext ==
    \/ FaConstruct
    \/ LoadScoring
    \/ LoadRecs
    \/ LoadQuestions
    \/ SetDimensionConfig
    \/ SetRiskThresholds
    \/ SetRiskStyling
    \/ SetDefaultScoring
    \/ CsConstruct

\* ---------------------------------------------------------- specifications
\* The ConfigService object has been constructed.
CsBuilt == csBoot = "serving"

\* No run of the validator is in progress.
ValParked ==
    /\ valQuestions = "A"
    /\ valScoring = [loadable |-> FALSE, data |-> EmptyDict]
    /\ valIssues = {}
    /\ valPc = "done"

\* No direct call of the question scorer is in progress.
QsParked ==
    /\ qsConfig = EmptyDict
    /\ qsDefaults = <<>>
    /\ qsAnswer = ""
    /\ qsResult = Zero
    /\ qsPc = "done"

\* No admin request is in progress or was made.
AdmParked ==
    /\ admQuestions = {}
    /\ admScoring = {}
    /\ admReq = [t \in AdmThreads |-> AdmIdle]
    /\ admLog = <<>>
    /\ admCount = 0

ToolsParked == ValParked /\ QsParked /\ AdmParked

\* No direct call of the classifier is in progress.
ClsParked ==
    /\ clsThresholds = ThresholdsA
    /\ clsScore = Zero
    /\ clsLevel = "low"
    /\ clsPc = "done"

\* No direct call of the conditional resolver is in progress.
RecParked ==
    /\ recConfig = EmptyDict
    /\ recAnswers = EmptyDict
    /\ recResult = <<>>
    /\ recPc = "done"

\* Direct calls of aggregate_dimension_scores on drawn inputs.
InitAgg == AggInit /\ FAInit /\ CSInit /\ CsBuilt /\ ClsParked /\ RecParked /\ ToolsParked

SpecAgg == InitAgg /\ [][AggNext]_vars

\* No direct call of the aggregator is in progress.
AggParked ==
    /\ aggConfig = [autonomy |-> [aggregation |-> "max", questions |-> EmptyDict]]
    /\ aggScores = EmptyDict
    /\ aggResult = Zero
    /\ aggPc = "done"

Init == FAInit /\ AggParked /\ CSInit /\ CsBuilt /\ ClsParked /\ RecParked /\ ToolsParked

\* Direct calls of determine_risk_level on drawn inputs.
InitCls == ClsInit /\ FAInit /\ AggParked /\ CSInit /\ CsBuilt /\ RecParked /\ ToolsParked

SpecCls == InitCls /\ [][ClsNext]_vars

\* Direct calls of get_conditional_recommendations on drawn inputs.
InitRec == RecInit /\ FAInit /\ AggParked /\ CSInit /\ CsBuilt /\ ClsParked /\ ToolsParked

SpecRec == InitRec /\ [][RecNext]_vars

\* The construction of one FlexibleAIRiskAssessor and of one ConfigService,
\* on files in any of their states.
InitBoot == FAUnbuilt /\ CSUnbuilt /\ AggParked /\ ClsParked /\ RecParked /\ ToolsParked

SpecBoot == InitBoot /\ [][BootNext]_vars

\* Both services constructed on the contents A, no direct call in progress.
ServicesParked == FAInit /\ AggParked /\ CSInit /\ CsBuilt /\ ClsParked /\ RecParked

\* Runs of validate_questions on drawn files.
InitVal == ValInit /\ QsParked /\ AdmParked /\ ServicesParked

SpecVal == InitVal /\ [][ValNext]_vars

\* Direct calls of calculate_question_score on drawn configurations.
InitScore == QsInit /\ ValParked /\ AdmParked /\ ServicesParked

SpecScore == InitScore /\ [][QsNext]_vars

\* Admin add and delete requests handled by two server threads.
InitAdmin == AdmInit /\ ValParked /\ QsParked /\ ServicesParked

SpecAdmin == InitAdmin /\ [][AdmNext]_vars

Next == FANext

\* One FlexibleAIRiskAssessor with an admin editing the files, a thread in
\* reload_configs and a thread in assess_risk.
Spec == Init /\ [][Next]_vars

\* One ConfigService with an admin editing the sources, two threads calling
\* reload_if_changed and a thread reading through the getters.
SpecCS == Init /\ [][CSNext]_vars

\* ------------------------------------------------------------- C8
AggStrategy == aggConfig[AggDim].aggregation

\* The weight the configuration gives question q (1.0 when none is configured).
ConfiguredWeight(q) ==
    LET qc == aggConfig[AggDim].questions
    IN  IF q \in DOMAIN qc /\ "weight" \in DOMAIN qc[q] THEN qc[q].weight ELSE One

\* The scoring entries of the call: the ids not ending in _reasoning.
ScoringEntries == {q \in DOMAIN aggScores : q[Len(q)] # "_reasoning"}

SumOfWeights == SumScores([q \in ScoringEntries |-> ConfiguredWeight(q)], ScoringEntries)

SumOfWeighted ==
    SumScores([q \in ScoringEntries |-> RatMul(aggScores[q], ConfiguredWeight(q))],
              ScoringEntries)

IsAutonomyExample ==
    /\ AggStrategy = "weighted_average"
    /\ aggConfig[AggDim].questions =
          (<<"autonomy">> :> [scoring |-> AggScoring, weight |-> One]) @@
          (<<"autonomy", "_scope">> :> [scoring |-> AggScoring, weight |-> Rat(1, 2)])
    /\ aggScores = (<<"autonomy">> :> ToRat(4)) @@ (<<"autonomy", "_scope">> :> ToRat(4))

\* C8: under weighted_average the result times the sum of the weights is the
\* sum of score*weight over the scoring entries (missing weight = 1.0), the
\* result is 0 when the sum of the weights is 0, and the autonomy example
\* (weights 1.0 and 0.5, both scores 4) gives 4.
C8_WeightedAverage ==
    (aggPc = "done" /\ AggStrategy = "weighted_average") =>
        /\ SumOfWeights # Zero => RatMul(aggResult, SumOfWeights) = SumOfWeighted
        /\ SumOfWeights = Zero => aggResult = Zero
        /\ IsAutonomyExample => aggResult = ToRat(4)

C8_Witness == aggPc = "done" /\ IsAutonomyExample /\ aggResult = ToRat(4)

\* ------------------------------------------------------------- C9
\* All scoring entries of the call are configured with the weight w.
AllWeightsEqual(w) == \A q \in ScoringEntries : ConfiguredWeight(q) = w

\* The result of the average strategy on the same entries.
AverageOnSameEntries ==
    aggregate_dimension_scores(
        [autonomy |-> [aggregation |-> "average",
                       questions |-> aggConfig[AggDim].questions]],
        AggDim, aggScores)

\* C9 as stated: with any one weight w on every scoring entry of a non-empty
\* set, weighted_average returns the arithmetic mean of the scores.
C9_EqualWeightsGiveMean_AnyWeight ==
    (/\ aggPc = "done"
     /\ AggStrategy = "weighted_average"
     /\ ScoringEntries # {}
     /\ \E w \in AggWeightValues : AllWeightsEqual(w))
        => aggResult = AverageOnSameEntries

\* C9 amended: with one positive weight w on every scoring entry of a
\* non-empty set, weighted_average returns the arithmetic mean of the scores;
\* with w = 0 it returns 0.
C9_EqualPositiveWeightsGiveMean ==
    (/\ aggPc = "done"
     /\ AggStrategy = "weighted_average"
     /\ ScoringEntries # {})
        => /\ \A w \in AggWeightValues :
                (AllWeightsEqual(w) /\ RatLt(Zero, w)) => aggResult = AverageOnSameEntries
           /\ AllWeightsEqual(Zero) => aggResult = Zero

C9_Witness ==
    /\ aggPc = "done"
    /\ AggStrategy = "weighted_average"
    /\ Cardinality(ScoringEntries) = 2
    /\ AllWeightsEqual(Rat(1, 2))
    /\ aggScores[<<"autonomy">>] # aggScores[<<"autonomy", "_scope">>]
    /\ aggResult = AverageOnSameEntries

\* ------------------------------------------------------------- C10
\* C10: a call whose score map has no scoring entry (empty, or only ids
\* ending in _reasoning) returns 0 under sum, average, weighted_average,
\* max and min.
C10_NoScoringEntriesGiveZero ==
    (/\ aggPc = "done"
     /\ ScoringEntries = {}
     /\ AggStrategy \in {"sum", "average", "weighted_average", "max", "min"})
        => aggResult = Zero


\* ------------------------------------------------------------- C1
\* C1: when reload_configs has failed, the active configuration (dimension
\* config, default scales, thresholds, recommendations, questions) is the one
\* that was active when that reload began.
C1_FailedReloadKeepsConfig == rpc = "failed" => ActiveConfig = preReload

\* ------------------------------------------------------------- C3
\* A whole evaluation of the answers against the one configuration cfg.
EvaluateAgainst(cfg, answers) ==
    LET dims == {Dimensions[i] : i \in 1..Len(Dimensions)} \cap DOMAIN cfg.dimension_config
        qs == [d \in dims |->
                  DimensionQuestionScores(cfg.dimension_config, cfg.default_scoring,
                                          d, answers)]
        ds == [d \in dims |-> DimensionScore(cfg.dimension_config, d, qs[d])]
        total == TotalScore(ds)
        level == determine_risk_level(cfg.risk_thresholds, total)
    IN  [risk_score |-> total,
         risk_level |-> level,
         dimension_scores |-> ds,
         question_scores |-> qs,
         recommendations |-> get_recommendations(cfg.recommendations_config, level),
         conditional_recommendations |->
             get_conditional_recommendations(cfg.recommendations_config, answers)]

\* C3: a finished assess_risk call returns what evaluating its answers
\* entirely against the configuration active when it began returns.
C3_InFlightUsesStartConfig ==
    ev.pc = "done" => EvResult = EvaluateAgainst(evStart.config, ev.answers)

\* ------------------------------------------------------------- C4
\* The weight the given dimension config gives the question autonomy_scope.
ScopeWeight(dim_cfg) == dim_cfg.autonomy.questions[<<"autonomy", "_scope">>].weight

\* The call began after a reload had completed successfully, with the scoring
\* file still as that reload read it, and the file was not edited since.
StartedAfterReload == evStart.clean /\ ~evStart.edited

\* C4: an evaluation that began after a successful reload, the scoring file
\* unchanged since that reload read it, has every category score computed
\* with the weights of the reloaded file.
C4_NewWeightAfterReload ==
    (ev.pc = "done" /\ StartedAfterReload) =>
        \A d \in DOMAIN ev.dimension_scores :
            ev.dimension_scores[d] =
                DimensionScore(ScoringYaml(scoringFile).dimensions, d,
                               ev.question_scores[d])

C4_Witness ==
    /\ ev.pc = "done"
    /\ StartedAfterReload
    /\ ScopeWeight(preReload.dimension_config) # ScopeWeight(dimension_config)
    /\ ev.dimension_scores["autonomy"] #
           DimensionScore(preReload.dimension_config, "autonomy",
                          ev.question_scores["autonomy"])

\* ------------------------------------------------------------- C7
\* The per-category score of dimension d in the result (0 when absent).
CategoryScore(d) == Get(ev.dimension_scores, d, Zero)

\* C7: once the total is computed it equals the sum of the per-category
\* scores of the same result.
C7_TotalIsSumOfCategories ==
    ev.pc \in {"base_recs", "cond_recs", "done"} =>
        /\ DOMAIN ev.dimension_scores \subseteq
               {"autonomy", "oversight", "impact", "orchestration", "data_sensitivity"}
        /\ ev.total_score =
               RatAdd(CategoryScore("autonomy"),
               RatAdd(CategoryScore("oversight"),
               RatAdd(CategoryScore("impact"),
               RatAdd(CategoryScore("orchestration"),
                      CategoryScore("data_sensitivity")))))

C7_Witness ==
    /\ ev.pc = "done"
    /\ Cardinality({d \in DOMAIN ev.dimension_scores : ev.dimension_scores[d] # Zero}) >= 3
    /\ ev.dimension_scores["autonomy"][2] # 1
    /\ ev.total_score # Zero


\* ------------------------------------------------------------- C2
\* C2: the parts a reader has obtained (questions, dimensions, thresholds,
\* recommendations) are together a configuration that was cached at an
\* instant when no load was running, i.e. they all come from the same load.
C2_ReaderSeesOneLoad == rd.pc = "done" => rd.got \in committed

\* ------------------------------------------------------------- C5
\* C5: when a reload_if_changed call returns and no source was edited since
\* the call began, every cached configuration is the current content of its
\* source.
C5_ReloadReflectsLastEdit ==
    \A l \in Loaders :
        (loader[l].pc = "returned" /\ ~dirty[l]) =>
            \A s \in CsSourceSet : cache[s] = CsLoaded(s, csFile[s].content)

\* ------------------------------------------------------------- C11
\* The score map of the call without its annotation entries.
WithoutAnnotations == [q \in ScoringEntries |-> aggScores[q]]

\* C11: under sum, average, weighted_average, max and min the category score
\* of a call is the one the same call returns on the score map without its
\* annotation entries (the ids ending in _reasoning).
C11_AnnotationsNeverAggregated ==
    (aggPc = "done" /\ AggStrategy \in {"sum", "average", "weighted_average", "max", "min"})
        => aggResult = aggregate_dimension_scores(aggConfig, AggDim, WithoutAnnotations)

\* ------------------------------------------------------------- C12
\* The question id is configured in some category of the dimension config.
ConfiguredInSomeCategory(dim_cfg, q) ==
    \E d \in DOMAIN dim_cfg : q \in DOMAIN Get(dim_cfg[d], "questions", EmptyDict)

\* The question id begins with the name of the category.
NamedAfter(q, d) == q[1] = d

KnownAnswers(answers, d) ==
    LET keep == {q \in DOMAIN answers :
                    ConfiguredInSomeCategory(dimension_config, q) \/ NamedAfter(q, d)}
    IN  [q \in keep |-> answers[q]]

AtBoundOf(i) ==
    clsScore = ToRat(clsThresholds[i].min) \/ clsScore = ToRat(clsThresholds[i].max)

\* A range configured before range number i also holds the score.
EarlierRangeHolds(i) ==
    \E j \in 1..(i - 1) :
        /\ RatLe(ToRat(clsThresholds[j].min), clsScore)
        /\ RatLe(clsScore, ToRat(clsThresholds[j].max))

\* With low=4-7 and medium=8-11, score 7 is low and score 8 is medium.
BoundaryExample ==
    clsThresholds = ThresholdsA =>
        /\ clsScore = ToRat(7) => clsLevel = "low"
        /\ clsScore = ToRat(8) => clsLevel = "medium"

\* C13 as stated: a score exactly equal to the min or to the max of a
\* configured range is classified into that range.
C13_BoundsInclusive ==
    clsPc = "done" =>
        /\ \A i \in 1..Len(clsThresholds) :
              AtBoundOf(i) => clsLevel = clsThresholds[i].level
        /\ BoundaryExample

\* C13 amended: a score exactly equal to the min or to the max of a
\* configured range is classified into that range unless a range configured
\* before it also holds the score (the first inclusive match wins).
C13_BoundsInclusiveFirstMatch ==
    clsPc = "done" =>
        /\ \A i \in 1..Len(clsThresholds) :
              (AtBoundOf(i) /\ ~EarlierRangeHolds(i)) => clsLevel = clsThresholds[i].level
        /\ BoundaryExample

C13_Witness ==
    /\ clsPc = "done"
    /\ clsThresholds = ThresholdsA
    /\ clsScore = ToRat(7)
    /\ clsLevel = "low"

\* ------------------------------------------------------------- C14
\* The smallest min of the configured ranges.
LowestMin ==
    CHOOSE m \in {clsThresholds[i].min : i \in 1..Len(clsThresholds)} :
        \A i \in 1..Len(clsThresholds) : m <= clsThresholds[i].min

\* The labels of the ranges with the smallest min.
LowestLevels ==
    {clsThresholds[i].level :
        i \in {j \in 1..Len(clsThresholds) : clsThresholds[j].min = LowestMin}}

\* C14: a score below the smallest configured min is classified to the label
\* of the range with that min.
C14_BelowMinClampsToLowest ==
    (clsPc = "done" /\ RatLt(clsScore, ToRat(LowestMin))) => clsLevel \in LowestLevels

\* ------------------------------------------------------------- C15
\* The largest max of the configured ranges.
HighestMax ==
    CHOOSE m \in {clsThresholds[i].max : i \in 1..Len(clsThresholds)} :
        \A i \in 1..Len(clsThresholds) : clsThresholds[i].max <= m

\* The labels of the ranges with the largest max.
HighestLevels ==
    {clsThresholds[i].level :
        i \in {j \in 1..Len(clsThresholds) : clsThresholds[j].max = HighestMax}}

\* C15: classification returns the label of a configured range, and for a
\* score above the largest configured max the label of the range with that max.
C15_OutsideRangesClamped ==
    clsPc = "done" =>
        /\ clsLevel \in {clsThresholds[i].level : i \in 1..Len(clsThresholds)}
        /\ RatLt(ToRat(HighestMax), clsScore) => clsLevel \in HighestLevels

\* ------------------------------------------------------------- C16
\* The rules of the call, in declared order.
RecRules == Get(recConfig, "conditional", <<>>)

\* For every (field, allowed set) pair of the rule's condition the submitted
\* answer for the field is a member of the allowed set; an absent field is
\* no member.
RuleMatches(rule) ==
    \A field \in DOMAIN rule.condition :
        /\ field \in DOMAIN recAnswers
        /\ recAnswers[field] \in rule.condition[field]

\* The texts of the list returned.
ReturnedTexts == {recResult[i] : i \in 1..Len(recResult)}

\* The call has the single rule {impact: [external], oversight: [minimal]}.
IsTwoFieldRuleExample ==
    /\ Len(RecRules) = 1
    /\ RecRules[1].condition =
          (<<"impact">> :> {"external"}) @@ (<<"oversight">> :> {"minimal"})
    /\ RecRules[1].recommendation # ""

\* C16: a recommendation text is returned iff a rule carrying it matches, a
\* rule matching iff every field of its condition is answered with a member
\* of the allowed set; the two-field rule fires iff impact is external and
\* oversight is minimal.
C16_RuleMatchesIffAllFields ==
    recPc = "done" =>
        /\ \A i \in 1..Len(RecRules) :
              RecRules[i].recommendation # "" =>
                  (RecRules[i].recommendation \in ReturnedTexts
                     <=> \E j \in 1..Len(RecRules) :
                            /\ RecRules[j].recommendation = RecRules[i].recommendation
                            /\ RuleMatches(RecRules[j]))
        /\ IsTwoFieldRuleExample =>
              (recResult # <<>> <=>
                  /\ Get(recAnswers, <<"impact">>, "") = "external"
                  /\ Get(recAnswers, <<"oversight">>, "") = "minimal")

C16_Witness ==
    /\ recPc = "done"
    /\ IsTwoFieldRuleExample
    /\ Get(recAnswers, <<"impact">>, "") = "external"
    /\ Get(recAnswers, <<"oversight">>, "") = "checkpoint"
    /\ recResult = <<>>

\* ------------------------------------------------------------- C17
\* The recommendations of the matching rules among the first n, one entry
\* per rule, in declared order; with_text_only leaves out the rules whose
\* recommendation is empty.
RECURSIVE RecommendationsOf(_, _)
RecommendationsOf(n, with_text_only) ==
    IF n = 0 THEN <<>>
    ELSE IF RuleMatches(RecRules[n])
              /\ (with_text_only => RecRules[n].recommendation # "")
         THEN Append(RecommendationsOf(n - 1, with_text_only),
                     RecRules[n].recommendation)
         ELSE RecommendationsOf(n - 1, with_text_only)

\* C17 as stated: the list returned is the recommendations of the matching
\* rules, one entry per matching rule, in declared order.
C17_OneEntryPerMatchingRule ==
    recPc = "done" => recResult = RecommendationsOf(Len(RecRules), FALSE)

\* C17 amended: the list returned is the recommendations of the matching
\* rules that carry a non-empty recommendation, one entry per such rule, in
\* declared order, the same text once per rule.
C17_OneEntryPerMatchingRuleWithText ==
    recPc = "done" => recResult = RecommendationsOf(Len(RecRules), TRUE)

C17_Witness ==
    /\ recPc = "done"
    /\ Len(RecRules) = 2
    /\ RecRules[1] # RecRules[2]
    /\ RuleMatches(RecRules[1]) /\ RuleMatches(RecRules[2])
    /\ recResult = <<"escalate", "escalate">>

\* ------------------------------------------------------------- C18
\* The contents of the scoring file that can be loaded.
LoadableScoring == ScoringNames \ {"missing"}

\* The answer has no score for the question: in no content the scoring file
\* takes does the question's scoring map of category d hold it, and in no
\* content does a default scale hold it.
HasNoScore(d, q, answer) ==
    /\ \A n \in LoadableScoring :
          LET questions_cfg == Get(Get(ScoringYaml(n).dimensions, d, EmptyDict),
                                   "questions", EmptyDict)
          IN  answer \notin DOMAIN Get(Get(questions_cfg, q, EmptyDict),
                                       "scoring", EmptyDict)
    /\ \A n \in LoadableScoring :
          LET scales == Get(ScoringYaml(n), "default_scoring", <<>>)
          IN  \A k \in 1..Len(scales) : answer \notin DOMAIN scales[k].scale

\* The diagnostics returned with the result of the call.
ResultDiagnostics == Get(EvResult, "diagnostics", {})

\* C18: in the result of a finished evaluation every scored question/answer
\* pair that has no score is scored 0 and has a MissingScoreWarning in the
\* diagnostics of the result.
C18_MissingScoreSurfaced ==
    ev.pc = "done" =>
        \A d \in DOMAIN ev.question_scores :
            \A q \in DOMAIN ev.question_scores[d] :
                HasNoScore(d, q, ev.answers[q]) =>
                    /\ ev.question_scores[d][q] = Zero
                    /\ <<d, q, ev.answers[q]>> \in ResultDiagnostics

\* ------------------------------------------------------------- C19
\* The answer key offered by question q has a score: in the scoring map of
\* the question in its category, or in a default scale.
OptionHasScore(q, key) ==
    LET d == questions_config.questions[q].dimension
        questions_cfg == Get(Get(dimension_config, d, EmptyDict), "questions", EmptyDict)
        scoring == Get(Get(questions_cfg, q, EmptyDict), "scoring", EmptyDict)
    IN  \/ key \in DOMAIN scoring
        \/ \E k \in 1..Len(default_scoring) : key \in DOMAIN default_scoring[k].scale

\* C19: when a load has completed, every answer key offered by a question of
\* the active configuration has a score (a load of a configuration with a
\* missing score fails instead and leaves it inactive).
C19_MissingScoreRejected ==
    rpc = "done" =>
        \A q \in DOMAIN questions_config.questions :
            \A key \in questions_config.questions[q].options : OptionHasScore(q, key)

\* ------------------------------------------------------------- C20
\* A question file of the directory lacks the expected top-level key.
QuestionsMalformed(name) ==
    \E f \in DOMAIN QuestionsDirContent(name) :
        QuestionsDirContent(name)[f].top # <<f, "_questions">>

\* The scoring file lacks a required key.
ScoringMalformed(name) ==
    ~({"dimensions", "risk_thresholds", "risk_styling"} \subseteq DOMAIN ScoringYaml(name))

\* C20: a service object that the startup load has produced was loaded from
\* sources none of which is missing or malformed, and serves no empty
\* configuration.
C20_StartupFailsOnBadSource ==
    /\ csBoot = "serving" =>
          /\ \A s \in CsSourceSet : csFile[s].content # "missing"
          /\ ~QuestionsMalformed(csFile["questions_dir"].content)
          /\ \A s \in CsSourceSet : cache[s] # EmptyDict
    /\ (rpc = "done" /\ edits = 0) =>
          /\ scoringFile # "missing" /\ recsFile # "missing"
          /\ ~ScoringMalformed(scoringFile)
          /\ ~QuestionsMalformed(questionsDir)

\* ------------------------------------------------------------- C21
\* A step of assess_risk after its entry.
EvalStep ==
    \/ EvalScoreQuestions
    \/ EvalAggregate
    \/ EvalLevel
    \/ EvalBaseRecs
    \/ EvalCondRecs

\* C21: every step of an evaluation leaves the loaded configuration
\* (dimension config, default scales, thresholds, recommendations, questions,
\* and the other fields of the object) and the answer map unchanged.
C21_EvaluationHasNoSideEffects ==
    [][EvalStep => /\ fieldVars' = fieldVars
                   /\ ev'.answers = ev.answers]_vars

C21_Witness ==
    /\ ev.pc = "done"
    /\ ev.answers # EmptyDict
    /\ ev.conditional_recommendations # <<>>
    /\ edits = 0
    /\ ActiveConfig = evStart.config

\* ------------------------------------------------------------- C22
\* The questions the question files of the run define for the dimension.
ValDefined(d) ==
    LET dir == QuestionsDirContent(valQuestions)
    IN  IF d \in DOMAIN dir /\ dir[d].top = <<d, "_questions">>
        THEN dir[d].questions ELSE EmptyDict

\* The questions the scoring file of the run scores under the dimension.
ValScored(d) ==
    Get(Get(Get(valScoring.data, "dimensions", EmptyDict), d, EmptyDict),
        "questions", EmptyDict)

ValDimensionNames == {ValDimensions[i] : i \in 1..Len(ValDimensions)}

\* Some reported issue is about the question.
Reported(d, q) == \E issue \in valIssues : issue[2] = d /\ issue[3] = q

\* Some reported issue is about the option, or about the question as a whole.
ReportedOption(d, q, o) ==
    \E issue \in valIssues : issue[2] = d /\ issue[3] = q /\ issue[4] \in {o, ""}

\* Two configured ranges share a score, or an integer between the smallest
\* min and the largest max lies in no range.
ThresholdsOverlapOrGap(thr) ==
    \/ \E i, j \in 1..Len(thr) : i < j /\ thr[i].min <= thr[j].max /\ thr[j].min <= thr[i].max
    \/ \E n \in 0..MaxTotal :
          /\ \E i \in 1..Len(thr) : thr[i].min <= n
          /\ \E i \in 1..Len(thr) : n <= thr[i].max
          /\ \A i \in 1..Len(thr) : n < thr[i].min \/ thr[i].max < n

\* C22: a validation run on a readable scoring file reports an issue for
\* every answer option without score, for every question defined in a
\* question file but not scored, for every question scored but defined in no
\* question file, and for overlapping or gapped threshold ranges.
C22_ValidationReportsAll ==
    (valPc = "done" /\ valScoring.loadable) =>
        /\ \A d \in ValDimensionNames :
              \A q \in DOMAIN ValDefined(d) :
                  \A o \in Get(ValDefined(d)[q], "options", {}) :
                      o \notin DOMAIN Get(Get(ValScored(d), q, EmptyDict), "scoring", EmptyDict)
                          => ReportedOption(d, q, o)
        /\ \A d \in ValDimensionNames :
              \A q \in DOMAIN ValDefined(d) \ DOMAIN ValScored(d) : Reported(d, q)
        /\ \A d \in ValDimensionNames :
              \A q \in DOMAIN ValScored(d) \ DOMAIN ValDefined(d) : Reported(d, q)
        /\ ThresholdsOverlapOrGap(Get(valScoring.data, "risk_thresholds", <<>>))
              => \E issue \in valIssues : issue[1] = "thresholds"

\* ------------------------------------------------------------- C23
\* The call was handed scoring entries only, and at least one.
OnlyScoringEntries == aggScores # EmptyDict /\ ScoringEntries = DOMAIN aggScores

\* The integer total of the scores of the entries S of the call.
RECURSIVE IntTotal(_)
IntTotal(S) ==
    IF S = {} THEN 0
    ELSE LET q == CHOOSE x \in S : TRUE
         IN  aggScores[q][1] + IntTotal(S \ {q})

\* r is the largest (sign = 1) or smallest (sign = -1) score among the
\* entries S of the call.
IsExtremeOf(r, S, sign) ==
    /\ \E q \in S : aggScores[q] = r
    /\ \A q \in S : sign * aggScores[q][1] * r[2] <= sign * r[1] * aggScores[q][2]

\* C23: a call on a non-empty map of scoring entries returns their total
\* under sum, their mean under average (result times count is the total),
\* their largest score under max and their smallest under min; under average
\* and max also when annotation entries accompany the scoring entries.
C23_StrategiesAreArithmetic ==
    (aggPc = "done" /\ ScoringEntries # {}) =>
        /\ (AggStrategy = "sum" /\ OnlyScoringEntries)
              => aggResult = ToRat(IntTotal(ScoringEntries))
        /\ AggStrategy = "average"
              => RatMul(aggResult, ToRat(Cardinality(ScoringEntries)))
                    = ToRat(IntTotal(ScoringEntries))
        /\ AggStrategy = "max" => IsExtremeOf(aggResult, ScoringEntries, 1)
        /\ (AggStrategy = "min" /\ OnlyScoringEntries)
              => IsExtremeOf(aggResult, ScoringEntries, -1)

C23_Witness ==
    /\ aggPc = "done"
    /\ AggStrategy = "min"
    /\ aggScores = (<<"autonomy">> :> ToRat(3)) @@ (<<"autonomy", "_scope">> :> ToRat(1))
    /\ aggResult = ToRat(1)

\* ------------------------------------------------------------- C24
\* The question's own scoring map in the configuration of the call.
OwnScoring ==
    LET qc == qsConfig[QsDim].questions
    IN  IF QsQuestion \in DOMAIN qc /\ "scoring" \in DOMAIN qc[QsQuestion]
        THEN qc[QsQuestion].scoring ELSE EmptyDict

\* The positions of the default scales that contain the answer of the call.
ScalesWithAnswer == {i \in 1..Len(qsDefaults) : qsAnswer \in DOMAIN qsDefaults[i].scale}

\* C24: a call returns the answer's entry in the question's own scoring map
\* when there is one, else the answer's entry in the earliest declared
\* default scale that contains it, else 0.
C24_OwnMapThenFirstDefaultScale ==
    qsPc = "done" =>
        IF qsAnswer \in DOMAIN OwnScoring
        THEN qsResult = ToRat(OwnScoring[qsAnswer])
        ELSE IF ScalesWithAnswer # {}
        THEN \E i \in ScalesWithAnswer :
                /\ \A j \in ScalesWithAnswer : i <= j
                /\ qsResult = ToRat(qsDefaults[i].scale[qsAnswer])
        ELSE qsResult = Zero

C24_Witness ==
    /\ qsPc = "done"
    /\ qsAnswer = "low"
    /\ OwnScoring = [agent |-> 3, low |-> 2]
    /\ Len(qsDefaults) = 2
    /\ qsDefaults[1].name = "inverse" /\ qsDefaults[2].name = "roles"
    /\ qsResult = ToRat(2)

\* ------------------------------------------------------------- C25
\* Range number i of the call holds the rational x within its inclusive bounds.
RangeHolds(i, x) ==
    /\ RatLe(ToRat(clsThresholds[i].min), x)
    /\ RatLe(x, ToRat(clsThresholds[i].max))

\* Range number i is the first range, in configured order, that holds x.
FirstRangeHolding(i, x) ==
    RangeHolds(i, x) /\ \A j \in 1..(i - 1) : ~RangeHolds(j, x)

\* The integer nearest to the score of the call, the even one of two equally
\* near.
NearestInteger ==
    CHOOSE n \in 0..(MaxTotal + 1) :
        LET twice_distance == 2 * Abs(clsScore[1] - n * clsScore[2])
        IN  \/ twice_distance < clsScore[2]
            \/ twice_distance = clsScore[2] /\ n % 2 = 0

\* C25 as stated: a call returns the level of the first range, in configured
\* order, whose inclusive bounds contain the score.
C25_FirstRangeHoldingScore ==
    clsPc = "done" =>
        \A i \in 1..Len(clsThresholds) :
            FirstRangeHolding(i, clsScore) => clsLevel = clsThresholds[i].level

\* C25 amended: a call returns the level of the first range, in configured
\* order, whose inclusive bounds contain the score rounded to the nearest
\* integer; a rounded score inside an overlap gets the earlier range's level.
C25_FirstRangeHoldingRoundedScore ==
    clsPc = "done" =>
        \A i \in 1..Len(clsThresholds) :
            FirstRangeHolding(i, ToRat(NearestInteger)) => clsLevel = clsThresholds[i].level

C25_Witness ==
    /\ clsPc = "done"
    /\ clsThresholds = ThresholdsOverlapping
    /\ clsScore = Rat(17, 2)
    /\ RangeHolds(2, clsScore) /\ ~RangeHolds(1, clsScore)
    /\ clsLevel = "low"

\* ------------------------------------------------------------- C26
\* The categories the scoring file of the evaluation defines.
ConfiguredCategories == DOMAIN ScoringYaml(scoringFile).dimensions

\* The score of category d of the scoring file for the answers of the call.
ConfiguredCategoryScore(d) ==
    LET dim_cfg == ScoringYaml(scoringFile).dimensions
    IN  DimensionScore(dim_cfg, d,
            DimensionQuestionScores(dim_cfg, evStart.config.default_scoring, d, ev.answers))

\* C26: an evaluation that began after a successful reload, the scoring
\* file unchanged since, has a per-category score for exactly the categories
\* the scoring file defines, and its total is the sum of the scores of all
\* of them.
C26_CategoriesFromConfiguration ==
    (ev.pc = "done" /\ StartedAfterReload) =>
        /\ DOMAIN ev.dimension_scores = ConfiguredCategories
        /\ ev.total_score =
               SumScores([d \in ConfiguredCategories |-> ConfiguredCategoryScore(d)],
                         ConfiguredCategories)

\* ------------------------------------------------------------- C27
\* The categories whose per-question scores in the result hold question q.
ScoredIn(q) == {d \in DOMAIN ev.question_scores : q \in DOMAIN ev.question_scores[d]}

\* C27: in a finished evaluation no question id is in the per-question
\* scores of two different categories.
C27_AnswerScoredInOneCategory ==
    ev.pc = "done" => \A q \in DOMAIN ev.answers : Cardinality(ScoredIn(q)) <= 1

\* ------------------------------------------------------------- C28
\* The ranges of the call are in ascending order and contiguous: each range
\* begins one above the max of the range before it.
ContiguousRanges ==
    /\ \A i \in 1..Len(clsThresholds) : clsThresholds[i].min <= clsThresholds[i].max
    /\ \A i \in 1..(Len(clsThresholds) - 1) :
          clsThresholds[i + 1].min = clsThresholds[i].max + 1

\* The position of the range with the given level.
RankOf(level) == CHOOSE i \in 1..Len(clsThresholds) : clsThresholds[i].level = level

\* The score of the call lies strictly between the max of range i and the
\* min of range i + 1.
BetweenRanges(i) ==
    /\ RatLt(ToRat(clsThresholds[i].max), clsScore)
    /\ RatLt(clsScore, ToRat(clsThresholds[i + 1].min))

\* The score lies within the span the ranges cover.
InCoveredSpan(x) ==
    /\ RatLe(ToRat(clsThresholds[1].min), x)
    /\ RatLe(x, ToRat(clsThresholds[Len(clsThresholds)].max))

\* C28: a call returns the level of the range holding the score rounded to
\* the nearest integer, ties to the even one (7.4 is low and 7.6 is medium
\* with low=4-7, medium=8-11); with contiguous ranges a score between two
\* ranges gets the level of one of the two and never unknown, and no lower
\* score of the covered span gets a higher-ordered level.
C28_RoundedThenClassified ==
    clsPc = "done" =>
        /\ \A i \in 1..Len(clsThresholds) :
              FirstRangeHolding(i, ToRat(NearestInteger))
                  => clsLevel = clsThresholds[i].level
        /\ clsThresholds = ThresholdsA =>
              /\ clsScore = Rat(74, 10) => clsLevel = "low"
              /\ clsScore = Rat(76, 10) => clsLevel = "medium"
              /\ clsScore = Rat(75, 10) => clsLevel = "medium"
              /\ clsScore = Rat(145, 10) => clsLevel = "high"
        /\ ContiguousRanges =>
              /\ \A i \in 1..(Len(clsThresholds) - 1) :
                    BetweenRanges(i) =>
                        clsLevel \in {clsThresholds[i].level, clsThresholds[i + 1].level}
              /\ InCoveredSpan(clsScore) =>
                    \A lower \in ClsScores :
                        (InCoveredSpan(lower) /\ RatLe(lower, clsScore)) =>
                            RankOf(determine_risk_level(clsThresholds, lower))
                                <= RankOf(clsLevel)

C28_Witness ==
    /\ clsPc = "done"
    /\ clsThresholds = ThresholdsA
    /\ clsScore = Rat(145, 10)
    /\ BetweenRanges(3)
    /\ clsLevel = "high"

\* ------------------------------------------------------------- C29
\* No admin request is in progress.
AdmQuiet == \A t \in AdmThreads : admReq[t].pc = "idle"

\* The requests that have reported success, as a set of positions.
Succeeded == 1..Len(admLog)

\* The last request on the id that reported success was a delete.
LastWasDelete(id) ==
    \E i \in Succeeded :
        /\ admLog[i] = [op |-> "delete", id |-> id]
        /\ \A j \in Succeeded : admLog[j].id = id => j <= i

\* Only add requests have reported success.
OnlyAdds == \A i \in Succeeded : admLog[i].op = "add"

\* C29: when no request is in progress, every id in the question file has
\* an entry in the scoring file, an id whose last successful request was a
\* delete is in neither file, and when only adds have reported success every
\* added id is in both files.
C29_FilesAgreeAfterRequests ==
    AdmQuiet =>
        /\ admQuestions \subseteq admScoring
        /\ \A id \in AdmIds : LastWasDelete(id) => id \notin admQuestions \cup admScoring
        /\ OnlyAdds =>
              \A i \in Succeeded : admLog[i].id \in admQuestions \cap admScoring

\* ------------------------------------------------------------- C30
\* No source's modification time differs from the recorded one.
NothingChanged == \A s \in CsSourceSet : ~has_changed(s)

\* The step leaves every cached configuration and every recorded
\* modification time as it was.
CacheAndMtimesKept == cache' = cache /\ mtimes' = mtimes

\* No thread is between a probe that found a difference and the end of the
\* load that probe decided.
NoLoadUnderWay == \A l \in Loaders : loader[l].pc \notin {"load", "stamp"}

\* C30: a probing step (_has_changed, _has_questions_changed) keeps the
\* cached configurations and the recorded modification times; a probe sends
\* a source to be loaded only when its modification time differs from the
\* recorded one; and while no source differs and no load decided earlier is
\* under way, no step, so no step of a reload_if_changed call made then,
\* changes the cache or the recorded times or starts a load.
C30_ProbeIsPureAndUnchangedNotReloaded ==
    [][/\ (\E l \in Loaders : Probe(l)) => CacheAndMtimesKept
       /\ \A l \in Loaders :
             (Probe(l) /\ loader'[l].pc = "load") => has_changed(CsSources[loader[l].k])
       /\ (NothingChanged /\ NoLoadUnderWay) =>
             (CacheAndMtimesKept /\ \A l \in Loaders : loader'[l].pc \notin {"load", "stamp"})]_vars

C30_Witness ==
    /\ loader["poller"].pc = "returned"
    /\ csEdits = 0
    /\ NothingChanged
    /\ cache = [s \in CsSourceSet |-> CsLoaded(s, "A")]
    /\ mtimes = [s \in CsSourceSet |-> 1]

=============================================================================
